---- MODULE Spec2Model ----
(***************************************************************************)
(* A model of the dataset side of vogelring-analytics: the typed filter    *)
(* predicates (_apply_filters), the dataset store (save / load / duplicate *)
(* / delete of dataset configs), dataset materialisation (load_dataset)    *)
(* and the dataset builder page (render_data_sets).                        *)
(*                                                                         *)
(* Text is a sequence of one-character strings, so that the string         *)
(* functions of the code (isalnum, strip, replace, isnumeric, float,       *)
(* to_datetime, str.contains) are computed and not assumed.                *)
(* A pandas cell is a tagged record: Str(s), Num(n), Dat(d) or NaN.        *)
(* A DataFrame is [columns, index, data]: the set of column names, the     *)
(* row labels and the rows (functions from column name to cell).           *)
(***************************************************************************)
EXTENDS Integers, Sequences, FiniteSets, TLC

VARIABLES
    source,     \* the table load_data() returns (loaded once, never changed)
    store,      \* DATASETS_DIR: file stem -> the JSON document it holds
    ss,         \* st.session_state of the page in use (and its widgets)
    last        \* the last operation carried out, with its inputs and its result

vars == <<source, store, ss, last>>

(***************************************************************************)
(* Bounds of the model.                                                    *)
(***************************************************************************)
MaxRows == 3        \* rows of a source table
MaxFilters == 2     \* predicates in the filter lists _apply_filters gets
MaxCfgFilters == 1  \* predicates in the filter list of a materialised config
MaxBuilderFilters == 1  \* predicates the builder's filter list may hold
MaxWrites == 1      \* writes to the dataset store in one session of the builder
MaxSteps == 4       \* interactions in one session of the builder

(***************************************************************************)
(* Characters and text.                                                    *)
(***************************************************************************)
Digits == {"0", "1", "2", "3", "4", "5", "6", "7", "8", "9"}
LowerLetters == {"a", "b", "c", "d", "e", "n", "s", "t", "x"}
UpperLetters == {"A", "B"}

DigitVal(c) ==
    CASE c = "0" -> 0 [] c = "1" -> 1 [] c = "2" -> 2 [] c = "3" -> 3
      [] c = "4" -> 4 [] c = "5" -> 5 [] c = "6" -> 6 [] c = "7" -> 7
      [] c = "8" -> 8 [] c = "9" -> 9

\* str.isalnum for one character
IsAlnum(c) == c \in Digits \cup LowerLetters \cup UpperLetters

\* str.lower for one character
LowerChar(c) == CASE c = "A" -> "a" [] c = "B" -> "b" [] OTHER -> c

\* str.strip(): leading and trailing whitespace removed
RECURSIVE LStrip(_)
LStrip(s) == IF s # <<>> /\ Head(s) = " " THEN LStrip(Tail(s)) ELSE s

RECURSIVE RStrip(_)
RStrip(s) ==
    IF s # <<>> /\ s[Len(s)] = " " THEN RStrip(SubSeq(s, 1, Len(s) - 1)) ELSE s

Strip(s) == RStrip(LStrip(s))

\* str.replace(" ", "_")
ReplaceSpaces(s) == [i \in 1..Len(s) |-> IF s[i] = " " THEN "_" ELSE s[i]]

\* str.isnumeric(): non-empty and every character numeric
IsNumeric(s) == s # <<>> /\ \A i \in 1..Len(s) : s[i] \in Digits

RECURSIVE DigitsValue(_)
DigitsValue(s) ==
    IF s = <<>> THEN 0 ELSE 10 * DigitsValue(SubSeq(s, 1, Len(s) - 1)) + DigitVal(s[Len(s)])

(***************************************************************************)
(* Cells and JSON values.                                                  *)
(***************************************************************************)
Str(s) == [t |-> "str", s |-> s]
Num(n) == [t |-> "num", n |-> n]
Dat(d) == [t |-> "date", d |-> d]
NaN == [t |-> "nan"]
None == [t |-> "none"]
\* a float that is not a number (float("nan"))
FloatNaN == [t |-> "fnan"]
\* a raised exception, in place of a result
Error(what) == [error |-> what]
IsError(r) == "error" \in DOMAIN r

\* dict.get(key, default)
Get(d, key, default) == IF key \in DOMAIN d THEN d[key] ELSE default

\* Python truthiness of a JSON scalar: None and "" are falsy
Truthy(v) == ~(v = None \/ v = Str(<<>>))

\* str(x) of a cell or a JSON scalar, for the values an id can take
StrOf(v) ==
    CASE v.t = "str" -> v.s
      [] v.t = "nan" -> <<"n", "a", "n">>
      [] v.t = "none" -> <<"N", "o", "n", "e">>
      [] v.t = "num" -> IF v.n = 0 THEN <<"0">> ELSE
            LET RECURSIVE dig(_)
                dig(n) == IF n = 0 THEN <<>>
                          ELSE dig(n \div 10) \o
                               <<CHOOSE c \in Digits : DigitVal(c) = n % 10>>
            IN dig(v.n)

\* float(x) of a JSON scalar: the number, FloatNaN for "nan", or an Error
\* (ValueError / TypeError); surrounding whitespace is accepted by float()
Float(v) ==
    CASE v.t = "num" -> Num(v.n)
      [] v.t = "str" ->
            LET s == Strip(v.s) IN
            IF IsNumeric(s) THEN Num(DigitsValue(s))
            ELSE IF [i \in 1..Len(s) |-> LowerChar(s[i])] = <<"n", "a", "n">>
                 THEN FloatNaN
                 ELSE Error("ValueError")
      [] OTHER -> Error("TypeError")

\* pd.to_numeric(series, errors="coerce") for one cell
ToNumericCell(c) ==
    CASE c.t = "num" -> c
      [] c.t = "str" -> IF IsNumeric(c.s) THEN Num(DigitsValue(c.s)) ELSE NaN
      [] c.t = "date" -> Num(c.d)
      [] OTHER -> NaN

\* A date "YYYY-MM-DD" as the ordinal YYYYMMDD; NaN when the text is no date.
IsIsoDate(s) ==
    /\ Len(s) = 10
    /\ s[5] = "-" /\ s[8] = "-"
    /\ \A i \in {1, 2, 3, 4, 6, 7, 9, 10} : s[i] \in Digits
    /\ DigitsValue(SubSeq(s, 6, 7)) \in 1..12
    /\ DigitsValue(SubSeq(s, 9, 10)) \in 1..28

IsoOrdinal(s) ==
    10000 * DigitsValue(SubSeq(s, 1, 4)) + 100 * DigitsValue(SubSeq(s, 6, 7))
        + DigitsValue(SubSeq(s, 9, 10))

\* 1970-01-01, the day every small nanosecond count falls on
EpochDay == 19700101

\* pd.to_datetime(series, errors="coerce") for one cell
ToDatetimeCell(c) ==
    CASE c.t = "date" -> c
      [] c.t = "str" -> IF IsIsoDate(c.s) THEN Dat(IsoOrdinal(c.s)) ELSE NaN
      [] c.t = "num" -> Dat(EpochDay)   \* a number is nanoseconds since the epoch
      [] OTHER -> NaN

\* pd.to_datetime(scalar): errors="raise" is the default
ToDatetimeScalar(v) ==
    CASE v.t = "str" -> IF IsIsoDate(v.s) THEN Dat(IsoOrdinal(v.s)) ELSE Error("ParserError")
      [] v.t = "date" -> v
      [] OTHER -> Error("TypeError")

(***************************************************************************)
(* DataFrames.                                                             *)
(***************************************************************************)
Columns(df) == DOMAIN df.dtypes

RECURSIVE SelectPositions(_, _, _)
SelectPositions(seq, keep, i) ==
    IF i > Len(seq) THEN <<>>
    ELSE (IF i \in keep THEN <<seq[i]>> ELSE <<>>) \o SelectPositions(seq, keep, i + 1)

\* the rows of df at the positions in keep, in their order, labels kept
TakeRows(df, keep) ==
    [df EXCEPT !.index = SelectPositions(df.index, keep, 1),
               !.data = SelectPositions(df.data, keep, 1)]

\* (mutant) the mask is applied by position, as df[mask.values] would
BoolIndexPositional(df, mask) ==
    TakeRows(df, {i \in 1..Len(df.index) : mask.values[i]})

\* df[mask] for a boolean Series: the mask is aligned to df on the row labels
\* (pandas reindexes it; a label of df the mask lacks raises IndexingError)
BoolIndex(df, mask) ==
    IF \E i \in 1..Len(df.index) : \A j \in 1..Len(mask.index) : mask.index[j] # df.index[i]
    THEN Error("IndexingError")
    ELSE TakeRows(df, {i \in 1..Len(df.index) :
            mask.values[CHOOSE j \in 1..Len(mask.index) : mask.index[j] = df.index[i]]})

\* Series.astype(str) for one cell of a column of the given dtype
AsStr(c, dtype) ==
    CASE c.t = "str" -> c.s
      [] c.t = "nan" -> IF dtype = "datetime" THEN <<"N", "a", "T">> ELSE <<"n", "a", "n">>
      [] c.t = "num" -> IF dtype = "float" THEN StrOf(c) \o <<".", "0">> ELSE StrOf(c)
      [] c.t = "date" ->
            LET y == Num(c.d \div 10000)
                m == (c.d \div 100) % 100
                d == c.d % 100
                two(n) == <<CHOOSE ch \in Digits : DigitVal(ch) = n \div 10,
                            CHOOSE ch \in Digits : DigitVal(ch) = n % 10>>
            IN StrOf(y) \o <<"-">> \o two(m) \o <<"-">> \o two(d)

\* Series == value for one cell (elementwise; a missing cell equals nothing;
\* a datetime column parses a text value, a numeric column never equals text)
CellEquals(c, v) ==
    CASE c.t = "nan" -> FALSE
      [] c.t = "str" -> v.t = "str" /\ c.s = v.s
      [] c.t = "num" -> v.t = "num" /\ c.n = v.n
      [] c.t = "date" -> v.t = "str" /\ IsIsoDate(v.s) /\ c.d = IsoOrdinal(v.s)

\* the regular expressions of the model: "." matches any character, "(" alone
\* does not compile, every other character matches itself
RegexCompiles(pat) == \A i \in 1..Len(pat) : pat[i] # "("

\* re.search(pat, s, re.IGNORECASE)
RegexSearch(pat, s) ==
    \E i \in 0..(Len(s) - Len(pat)) :
        \A k \in 1..Len(pat) : pat[k] = "." \/ LowerChar(pat[k]) = LowerChar(s[i + k])

\* a boolean Series over df's rows
Mask(df, values) == [index |-> df.index, values |-> values]

\* series >= bound and series <= bound: a missing value compares False
\* (mutant) a value that did not parse passes the lower bound
CellGEOrMissing(c, b) ==
    CASE c.t = "num" /\ b.t = "num" -> c.n >= b.n
      [] c.t = "date" /\ b.t = "date" -> c.d >= b.d
      [] OTHER -> c = NaN

CellGE(c, b) ==
    CASE c.t = "num" /\ b.t = "num" -> c.n >= b.n
      [] c.t = "date" /\ b.t = "date" -> c.d >= b.d
      [] OTHER -> FALSE

CellLE(c, b) ==
    CASE c.t = "num" /\ b.t = "num" -> c.n <= b.n
      [] c.t = "date" /\ b.t = "date" -> c.d <= b.d
      [] OTHER -> FALSE

(***************************************************************************)
(* util/datasets.py: one predicate of _apply_filters.                      *)
(***************************************************************************)
ApplyEquals(result, f) ==
    LET col == f["column"]
        value == Get(f, "value", Str(<<>>))
    IN BoolIndex(result, Mask(result,
            [i \in 1..Len(result.data) |-> CellEquals(result.data[i][col], value)]))

\* (mutant) the mask is applied for an empty list of values too
ApplyMultiAlways(result, f) ==
    BoolIndex(result, Mask(result,
        [i \in 1..Len(result.data) |->
            \E k \in 1..Len(Get(f, "values", <<>>)) :
                CellEquals(result.data[i][f["column"]], Get(f, "values", <<>>)[k])]))

ApplyMulti(result, f) ==
    LET col == f["column"]
        values == Get(f, "values", <<>>)
    IN IF Len(values) > 0
       THEN BoolIndex(result, Mask(result,
                [i \in 1..Len(result.data) |->
                    \E k \in 1..Len(values) : CellEquals(result.data[i][col], values[k])]))
       ELSE result

ApplyContains(result, f) ==
    LET col == f["column"]
        value == StrOf(Get(f, "value", Str(<<>>)))
    IN IF value # <<>>
       THEN IF ~RegexCompiles(value) THEN Error("re.error")
            ELSE BoolIndex(result, Mask(result,
                    [i \in 1..Len(result.data) |->
                        RegexSearch(value, AsStr(result.data[i][col], result.dtypes[col]))]))
       ELSE result

ApplyDateRange(result, f) ==
    LET col == f["column"]
        start == IF Truthy(Get(f, "start", None))
                 THEN ToDatetimeScalar(f["start"]) ELSE None
        end == IF Truthy(Get(f, "end", None))
               THEN ToDatetimeScalar(f["end"]) ELSE None
        series == [i \in 1..Len(result.data) |-> ToDatetimeCell(result.data[i][col])]
        ge == Mask(result, [i \in 1..Len(series) |-> CellGE(series[i], start)])
        le == Mask(result, [i \in 1..Len(series) |-> CellLE(series[i], end)])
        r1 == IF start # None THEN BoolIndex(result, ge) ELSE result
    IN IF IsError(start) THEN start
       ELSE IF IsError(end) THEN end
       ELSE IF IsError(r1) THEN r1
       ELSE IF end # None THEN BoolIndex(r1, le) ELSE r1

\* one bound of number_range: skipped when None or "", and when float() or the
\* indexing raises (try / except Exception: pass); a float NaN bound compares
\* False with every row
NumberBound(result, series, raw, upper) ==
    LET b == Float(raw)
        mask == Mask([index |-> series.index],
                     [i \in 1..Len(series.values) |->
                        IF upper THEN CellLE(series.values[i], b)
                        ELSE CellGE(series.values[i], b)])
    IN IF raw = None \/ raw = Str(<<>>) THEN result
       ELSE IF IsError(b) THEN result
       ELSE IF IsError(BoolIndex(result, mask)) THEN result
       ELSE BoolIndex(result, mask)

ApplyNumberRange(result, f) ==
    LET col == f["column"]
        min_v == Get(f, "min", None)
        max_v == Get(f, "max", None)
        series == [index |-> result.index,
                   values |-> [i \in 1..Len(result.data) |->
                                  ToNumericCell(result.data[i][col])]]
        r1 == NumberBound(result, series, min_v, FALSE)
    IN IF IsError(r1) THEN r1 ELSE NumberBound(r1, series, max_v, TRUE)

\* (mutant) no check that the column exists: result[col] raises KeyError
ApplyOneNoColumnCheck(result, f) ==
    LET ftype == Get(f, "type", "")
        col == Get(f, "column", "")
    IN IF col \notin Columns(result) THEN Error("KeyError")
       ELSE CASE ftype = "equals" -> ApplyEquals(result, f)
              [] ftype = "multi" -> ApplyMulti(result, f)
              [] ftype = "contains" -> ApplyContains(result, f)
              [] ftype = "date_range" -> ApplyDateRange(result, f)
              [] ftype = "number_range" -> ApplyNumberRange(result, f)
              [] OTHER -> result

\* the body of the loop of _apply_filters for one filter f
ApplyOne(result, f) ==
    LET ftype == Get(f, "type", "")
        col == Get(f, "column", "")
    IN IF col \notin Columns(result) THEN result
       ELSE CASE ftype = "equals" -> ApplyEquals(result, f)
              [] ftype = "multi" -> ApplyMulti(result, f)
              [] ftype = "contains" -> ApplyContains(result, f)
              [] ftype = "date_range" -> ApplyDateRange(result, f)
              [] ftype = "number_range" -> ApplyNumberRange(result, f)
              [] OTHER -> result

\* (mutant) only the first filter of the list is applied
FoldFiltersHeadOnly(result, filters) ==
    IF filters = <<>> THEN result ELSE ApplyOne(result, Head(filters))

RECURSIVE FoldFilters(_, _)
FoldFilters(result, filters) ==
    IF filters = <<>> \/ IsError(result) THEN result
    ELSE FoldFilters(ApplyOne(result, Head(filters)), Tail(filters))

\* util/datasets.py _apply_filters(df, filters)
ApplyFilters(df, filters) ==
    IF filters = <<>> THEN df ELSE FoldFilters(df, filters)

(***************************************************************************)
(* views/data_sets.py: the builder's own _apply_filters, which differs in  *)
(* the equals predicate: a value whose text is numeric is compared as a    *)
(* float.                                                                  *)
(***************************************************************************)
BuilderApplyEquals(result, f) ==
    LET col == f["column"]
        value == Get(f, "value", Str(<<>>))
        cmp == IF IsNumeric(StrOf(value)) THEN Float(Str(StrOf(value))) ELSE value
    IN BoolIndex(result, Mask(result,
            [i \in 1..Len(result.data) |-> CellEquals(result.data[i][col], cmp)]))

BuilderApplyOne(result, f) ==
    LET ftype == Get(f, "type", "")
        col == Get(f, "column", "")
    IN IF col \notin Columns(result) THEN result
       ELSE CASE ftype = "equals" -> BuilderApplyEquals(result, f)
              [] ftype = "multi" -> ApplyMulti(result, f)
              [] ftype = "contains" -> ApplyContains(result, f)
              [] ftype = "date_range" -> ApplyDateRange(result, f)
              [] ftype = "number_range" -> ApplyNumberRange(result, f)
              [] OTHER -> result

RECURSIVE BuilderFoldFilters(_, _)
BuilderFoldFilters(result, filters) ==
    IF filters = <<>> \/ IsError(result) THEN result
    ELSE BuilderFoldFilters(BuilderApplyOne(result, Head(filters)), Tail(filters))

\* views/data_sets.py _apply_filters(df, filters)
BuilderApplyFilters(df, filters) ==
    IF filters = <<>> THEN df ELSE BuilderFoldFilters(df, filters)

(***************************************************************************)
(* util/datasets.py: the dataset store.  A file is named by its directory  *)
(* and stem; a document is a function from keys to JSON values.            *)
(***************************************************************************)
SafeChar(c) == IsAlnum(c) \/ c \in {"-", "_", " "}

\* _safe_name(name)
SafeName(name) == ReplaceSpaces(Strip(SelectSeq(name, SafeChar)))

\* _dataset_config_path(name): (DATASETS_DIR / safe).with_suffix(".json").
\* With an empty safe name the path is DATASETS_DIR itself, and with_suffix
\* makes it the file "datasets.json" of STORAGE_DIR.
DatasetConfigPath(name) ==
    IF SafeName(name) = <<>>
    THEN [dir |-> "storage", stem |-> <<"d", "a", "t", "a", "s", "e", "t", "s">>]
    ELSE [dir |-> "datasets", stem |-> SafeName(name)]

\* load_dataset_config(name): the document, or None
LoadDatasetConfig(st, name) ==
    IF DatasetConfigPath(name) \in DOMAIN st THEN st[DatasetConfigPath(name)] ELSE None

\* (mutant) a file that exists is left as it is
WriteFileKeepFirst(st, path, doc) ==
    [q \in DOMAIN st \cup {path} |-> IF q \in DOMAIN st THEN st[q] ELSE doc]

\* the store with file path holding doc (open(path, "w") + json.dump)
WriteFile(st, path, doc) ==
    [q \in DOMAIN st \cup {path} |-> IF q = path THEN doc ELSE st[q]]

\* the store without file path (path.unlink())
RemoveFile(st, path) == [q \in DOMAIN st \ {path} |-> st[q]]

\* save_dataset_config(config): [store, raised]
SaveDatasetConfig(st, config) ==
    IF Get(config, "name", <<>>) = <<>>
    THEN [store |-> st, raised |-> "ValueError"]
    ELSE [store |-> WriteFile(st, DatasetConfigPath(config["name"]), config),
          raised |-> "no"]

\* delete_dataset(name)
DeleteDataset(st, name) ==
    IF DatasetConfigPath(name) \in DOMAIN st
    THEN RemoveFile(st, DatasetConfigPath(name)) ELSE st

\* (mutant) only the name is left out: the timestamps are carried over
WithoutKeysButTimestamps(d, dropped) ==
    [k \in DOMAIN d \ (dropped \ {"created_at", "updated_at"}) |-> d[k]]

\* a text argument left at its default None (no text: texts hold single characters)
NotGiven == <<"None">>

\* the keys of d other than those in dropped, with their values
WithoutKeys(d, dropped) == [k \in DOMAIN d \ dropped |-> d[k]]

\* d with key k set to v ({**d, k: v})
WithKey(d, k, v) == [q \in DOMAIN d \cup {k} |-> IF q = k THEN v ELSE d[q]]

\* (mutant) the copy starts with every row included again
DuplicateDatasetResetExcluded(st, base_name, new_name, new_description) ==
    LET base == LoadDatasetConfig(st, base_name)
        named == WithKey(WithKey(WithoutKeys(base, {"name", "created_at", "updated_at"}),
                                 "name", new_name), "excluded_ids", <<>>)
        new_cfg == IF new_description # NotGiven
                   THEN WithKey(named, "description", new_description) ELSE named
        saved == SaveDatasetConfig(st, new_cfg)
    IN IF base = None THEN [store |-> st, result |-> None, raised |-> "no"]
       ELSE [store |-> saved.store,
             result |-> IF saved.raised = "no" THEN new_cfg ELSE None,
             raised |-> saved.raised]

\* (mutant) the copy is returned and not saved
DuplicateDatasetNoSave(st, base_name, new_name, new_description) ==
    LET base == LoadDatasetConfig(st, base_name)
        named == WithKey(WithoutKeys(base, {"name", "created_at", "updated_at"}),
                         "name", new_name)
        new_cfg == IF new_description # NotGiven
                   THEN WithKey(named, "description", new_description) ELSE named
    IN IF base = None THEN [store |-> st, result |-> None, raised |-> "no"]
       ELSE [store |-> st, result |-> new_cfg, raised |-> "no"]

\* duplicate_dataset(base_name, new_name, new_description=...):
\* [store, result, raised]; new_description is NotGiven when left out
DuplicateDataset(st, base_name, new_name, new_description) ==
    LET base == LoadDatasetConfig(st, base_name)
        named == WithKey(WithoutKeys(base, {"name", "created_at", "updated_at"}),
                         "name", new_name)
        new_cfg == IF new_description # NotGiven
                   THEN WithKey(named, "description", new_description) ELSE named
        saved == SaveDatasetConfig(st, new_cfg)
    IN IF base = None THEN [store |-> st, result |-> None, raised |-> "no"]
       ELSE [store |-> saved.store,
             result |-> IF saved.raised = "no" THEN new_cfg ELSE None,
             raised |-> saved.raised]

(***************************************************************************)
(* util/datasets.py: materialisation.                                      *)
(***************************************************************************)
\* set(str(x) for x in excluded_ids)
StrSet(list) == {StrOf(list[i]) : i \in 1..Len(list)}

\* (mutant) the flag is inverted: 1 for the excluded rows
ComputeIncludedColumnInverted(df, id_field, excluded_ids) ==
    IF id_field \notin Columns(df)
    THEN [i \in 1..Len(df.data) |-> 0]
    ELSE [i \in 1..Len(df.data) |->
            IF AsStr(df.data[i][id_field], df.dtypes[id_field]) \in excluded_ids
            THEN 1 ELSE 0]

\* _compute_included_column(df, id_field, excluded_ids): the 1/0 values
ComputeIncludedColumn(df, id_field, excluded_ids) ==
    IF id_field \notin Columns(df)
    THEN [i \in 1..Len(df.data) |-> 1]
    ELSE [i \in 1..Len(df.data) |->
            IF AsStr(df.data[i][id_field], df.dtypes[id_field]) \in excluded_ids
            THEN 0 ELSE 1]

\* df.insert(0, "included", values)
InsertIncluded(df, values) ==
    [df EXCEPT !.dtypes = [c \in Columns(df) \cup {"included"} |->
                              IF c = "included" THEN "int" ELSE df.dtypes[c]],
               !.data = [i \in 1..Len(df.data) |->
                            [c \in Columns(df) \cup {"included"} |->
                                IF c = "included" THEN Num(values[i])
                                ELSE df.data[i][c]]]]

\* the orders list(a_set) can give
RECURSIVE Orderings(_)
Orderings(set) ==
    IF set = {} THEN {<<>>}
    ELSE UNION {{<<x>> \o rest : rest \in Orderings(set \ {x})} : x \in set}

\* (mutant) the excluded rows are dropped from the materialised table
MaterializeDroppingExcluded(cfg, name, df_all, order) ==
    LET df == ApplyFilters(df_all, Get(cfg, "filters", <<>>))
        id_field == Get(cfg, "id_field", "id")
        excluded_ids == StrSet(Get(cfg, "excluded_ids", <<>>))
        included == ComputeIncludedColumn(df, id_field, excluded_ids)
        kept == TakeRows(df, {i \in 1..Len(df.data) : included[i] = 1})
    IN IF IsError(df) THEN df
       ELSE [meta |-> [name |-> Get(cfg, "name", name)],
             df |-> InsertIncluded(kept, [i \in 1..Len(kept.data) |-> 1])]

\* load_dataset, lines 132-150: the meta and the frame of a dynamic config;
\* order is the order list(excluded_ids) happens to give
Materialize(cfg, name, df_all, order) ==
    LET df == ApplyFilters(df_all, Get(cfg, "filters", <<>>))
        id_field == Get(cfg, "id_field", "id")
        excluded_ids == StrSet(Get(cfg, "excluded_ids", <<>>))
        included_series == ComputeIncludedColumn(df, id_field, excluded_ids)
    IN IF IsError(df) THEN df
       ELSE [meta |-> [name |-> Get(cfg, "name", name),
                       description |-> Get(cfg, "description", <<>>),
                       created_at |-> Get(cfg, "created_at", <<>>),
                       updated_at |-> Get(cfg, "updated_at", <<>>),
                       columns |-> Get(cfg, "columns", <<>>),
                       filters |-> Get(cfg, "filters", <<>>),
                       excluded_ids |-> order,
                       id_field |-> id_field],
             df |-> InsertIncluded(df, included_series)]

\* load_dataset(name): Materialize for a dynamic config; the legacy branch
\* needs a .csv beside the .json, which DATASETS_DIR does not hold here, so
\* that it returns (None, None)
LoadDataset(st, name, df_all, order) ==
    LET cfg == LoadDatasetConfig(st, name)
    IN IF cfg # None /\ ({"filters", "excluded_ids", "columns"} \cap DOMAIN cfg # {})
       THEN Materialize(cfg, name, df_all, order)
       ELSE [meta |-> None, df |-> None]

\* the orders list(excluded_ids) can give for the config stored under name
ExcludedOrders(st, name) ==
    LET cfg == LoadDatasetConfig(st, name)
    IN IF cfg = None THEN {<<>>}
       ELSE Orderings(StrSet(Get(cfg, "excluded_ids", <<>>)))

(***************************************************************************)
(* The source tables of the model: load_data() reads every row of the      *)
(* sightings file, derives year from date, and labels the rows 0, 1, ...   *)
(***************************************************************************)
D_2020_06_15 == <<"2", "0", "2", "0", "-", "0", "6", "-", "1", "5">>
D_2020_12_01 == <<"2", "0", "2", "0", "-", "1", "2", "-", "0", "1">>
D_2021_01_10 == <<"2", "0", "2", "1", "-", "0", "1", "-", "1", "0">>

\* data.py: df["year"] = df["date"].dt.year
YearOf(date) == IF date.t = "date" THEN Num(date.d \div 10000) ELSE NaN

SightingRow(id, species, date) ==
    [id |-> id, species |-> species, date |-> date, year |-> YearOf(date)]

RowPool ==
    << SightingRow(Str(<<"1">>), Str(<<"a", "b">>), Dat(IsoOrdinal(D_2020_06_15))),
       SightingRow(Str(<<"2">>), Str(<<"A", "b">>), Dat(IsoOrdinal(D_2021_01_10))),
       SightingRow(Str(<<"3">>), Str(<<"c">>), NaN),
       SightingRow(NaN, Str(<<>>), Dat(IsoOrdinal(D_2020_06_15))) >>

ColumnSets == { {"id", "species", "date", "year"}, {"species", "date", "year"}, {"id"} }

\* the frame load_data() builds from the given rows, restricted to cols
LoadedFrame(rows, cols) ==
    [dtypes |-> [c \in cols |->
                    CASE c = "date" -> "datetime"
                      [] c = "year" -> IF \E i \in 1..Len(rows) : rows[i].year = NaN
                                       THEN "float" ELSE "int"
                      [] OTHER -> "object"],
     index |-> [i \in 1..Len(rows) |-> i - 1],
     data |-> [i \in 1..Len(rows) |-> [c \in cols |-> rows[i][c]]]]

SourceTables ==
    { LoadedFrame(SelectPositions(RowPool, keep, 1), cols) :
        keep \in {k \in SUBSET (1..Len(RowPool)) : Cardinality(k) <= MaxRows},
        cols \in ColumnSets }

(***************************************************************************)
(* The filter dicts of the model, as the builders write them.              *)
(***************************************************************************)
FilterPool ==
    { [type |-> "equals", column |-> "species", value |-> Str(<<"a", "b">>)],
      [type |-> "equals", column |-> "year", value |-> Str(<<"2", "0", "2", "0">>)],
      [type |-> "multi", column |-> "species", values |-> <<Str(<<"a", "b">>), Str(<<"c">>)>>],
      [type |-> "multi", column |-> "species", values |-> <<>>],
      [type |-> "contains", column |-> "species", value |-> Str(<<"A", ".">>)],
      [type |-> "contains", column |-> "id", value |-> Str(<<"(">>)],
      [type |-> "date_range", column |-> "date", start |-> Str(D_2020_06_15), end |-> None],
      [type |-> "date_range", column |-> "date", start |-> Str(D_2020_06_15),
            end |-> Str(D_2020_12_01)],
      [type |-> "number_range", column |-> "year", min |-> Str(<<"2", "0", "2", "1">>),
            max |-> Str(<<>>)],
      [type |-> "number_range", column |-> "id", min |-> Str(<<"x">>), max |-> Str(<<"2">>)],
      [type |-> "number_range", column |-> "id", min |-> Str(<<"2">>), max |-> Str(<<"2">>)] }

FilterLists(n) == UNION { [1..k -> FilterPool] : k \in 0..n }

\* range filters with every combination of bounds: none, one, both, and a
\* bound that is no date or no number
RangePool ==
    { [type |-> "number_range", column |-> "species", min |-> Str(<<>>), max |-> Str(<<>>)],
      [type |-> "number_range", column |-> "species", min |-> Str(<<"0">>), max |-> None],
      [type |-> "number_range", column |-> "year", min |-> None,
            max |-> Str(<<"2", "0", "2", "0">>)],
      [type |-> "number_range", column |-> "id", min |-> Str(<<"1">>), max |-> Str(<<"3">>)],
      [type |-> "number_range", column |-> "id", min |-> Str(<<"2">>), max |-> Str(<<"x">>)],
      [type |-> "number_range", column |-> "year", min |-> Str(<<"x">>), max |-> None],
      [type |-> "date_range", column |-> "date", start |-> None, end |-> None],
      [type |-> "date_range", column |-> "date", start |-> None, end |-> Str(D_2020_06_15)],
      [type |-> "date_range", column |-> "species", start |-> None,
            end |-> Str(D_2020_12_01)],
      [type |-> "date_range", column |-> "date", start |-> Str(<<"x">>),
            end |-> Str(D_2020_12_01)],
      [type |-> "date_range", column |-> "date", start |-> Str(D_2020_06_15),
            end |-> Str(<<"x">>)] }

\* the filter lists _apply_filters is called with
FilterInputs == FilterLists(MaxFilters) \cup { <<f>> : f \in RangePool }

\* the filters whose order is varied: one of each type, narrowing, raising and
\* with a bound that is skipped
PermPool ==
    { f \in FilterPool :
        \/ f["type"] = "equals" /\ f["column"] = "species"
        \/ f["type"] = "multi" /\ f["values"] # <<>>
        \/ f["type"] = "contains" /\ f["column"] = "id"
        \/ f["type"] = "date_range" /\ f["end"] # None
        \/ f["type"] = "number_range" /\ f["column"] = "year" }
    \cup { f \in RangePool : f["type"] = "number_range" /\ f["max"] = Str(<<"x">>) }

PermLists(n) == UNION { [1..k -> PermPool] : k \in 2..n }

(***************************************************************************)
(* The names and the dataset configs of the model.                         *)
(***************************************************************************)
N_ab == <<"a", "b">>
N_a_space_b == <<"a", " ", "b">>
N_a_under_b == <<"a", "_", "b">>
N_a_bang_b == <<"a", "!", "b">>
N_bang == <<"!">>

ExcludedPool ==
    { <<>>,
      <<Str(<<"1">>)>>,
      <<Str(<<"3">>), Str(<<"1">>)>>,
      <<Str(<<"9">>), Str(<<"n", "a", "n">>)>>,
      <<Str(<<"2", "0", "2", "0">>), Str(<<"9">>)>> }

\* the configs whose materialisation is checked: every short filter list, with
\* every excluded list, and id_field left out ("id"), a numeric column, or a
\* column no table has
CfgPool ==
    { [name |-> N_ab, description |-> <<>>, columns |-> <<"species">>,
       filters |-> f, excluded_ids |-> e] :
        f \in FilterLists(MaxCfgFilters), e \in ExcludedPool }
    \cup
    { [name |-> N_ab, description |-> <<>>, columns |-> <<"species">>,
       filters |-> f, excluded_ids |-> e, id_field |-> i] :
        f \in FilterLists(MaxCfgFilters), e \in ExcludedPool, i \in {"year", "uid"} }

NoSession == [page |-> "none"]
NoStore == [k \in {} |-> None]

(***************************************************************************)
(* SpecFilter: _apply_filters as a pure function of (table, filter list).  *)
(***************************************************************************)
InitFilter ==
    /\ source \in SourceTables
    /\ store = NoStore
    /\ ss = NoSession
    /\ last = [op |-> "none"]

\* _apply_filters(df, filters), and _apply_filters on its own result
CallApplyFilters ==
    /\ last.op = "none"
    /\ \E filters \in FilterInputs :
        LET once == ApplyFilters(source, filters)
        IN /\ last' = [op |-> "apply_filters", filters |-> filters, once |-> once,
                    twice |-> IF IsError(once) THEN once ELSE ApplyFilters(once, filters)]
           /\ UNCHANGED <<source, store, ss>>

\* load_dataset(name) on a store that holds cfg under its name
CallLoadDataset ==
    /\ last.op = "none"
    /\ \E cfg \in CfgPool :
        LET st == WriteFile(NoStore, DatasetConfigPath(cfg.name), cfg)
        IN \E order \in ExcludedOrders(st, cfg.name) :
            /\ last' = [op |-> "load_dataset", cfg |-> cfg,
                        result |-> LoadDataset(st, cfg.name, source, order)]
            /\ UNCHANGED <<source, store, ss>>

\* views/data_sets.py _apply_filters(df, filters)
CallBuilderApplyFilters ==
    /\ last.op = "none"
    /\ \E filters \in FilterLists(MaxFilters) :
        /\ last' = [op |-> "builder_apply_filters", filters |-> filters,
                    once |-> BuilderApplyFilters(source, filters)]
        /\ UNCHANGED <<source, store, ss>>

\* _apply_filters(df, filters) for a list and for the same filters in
\* another order
CallApplyPermuted ==
    /\ last.op = "none"
    /\ \E filters \in PermLists(MaxFilters) :
        \E perm \in Orderings(1..Len(filters)) \ {[k \in 1..Len(filters) |-> k]} :
            /\ last' = [op |-> "apply_permuted", filters |-> filters,
                        permuted |-> [k \in 1..Len(filters) |-> filters[perm[k]]],
                        once |-> ApplyFilters(source, filters),
                        other |-> ApplyFilters(source, [k \in 1..Len(filters) |->
                                                          filters[perm[k]]])]
            /\ UNCHANGED <<source, store, ss>>

NextFilter ==
    \/ CallApplyFilters \/ CallLoadDataset
    \/ CallBuilderApplyFilters \/ CallApplyPermuted

SpecFilter == InitFilter /\ [][NextFilter]_vars

(***************************************************************************)
(* Claims about _apply_filters (SpecFilter).                               *)
(***************************************************************************)
AllColumnsAbsent(filters, df) ==
    \A k \in 1..Len(filters) : Get(filters[k], "column", "") \notin Columns(df)

\* C4: a predicate of any kind whose column is not a column of the table T
\* returns T unchanged (same rows, same order, same labels) and raises nothing.
C4_AbsentColumnIsNoOp ==
    (last.op = "apply_filters" /\ Len(last.filters) >= 1
        /\ AllColumnsAbsent(last.filters, source))
    => last.once = source

\* a non-empty table was given a contains predicate, whose pattern does not
\* compile, on a column the table lacks
C4_Witness ==
    /\ last.op = "apply_filters" /\ Len(last.filters) = 1
    /\ last.filters[1].type = "contains" /\ last.filters[1].value = Str(<<"(">>)
    /\ last.filters[1].column \notin Columns(source)
    /\ Len(source.data) > 0
    /\ last.once = source

\* C5: applying a filter list to its own result changes nothing:
\* apply(F, apply(F, T)) = apply(F, T).
C5_Idempotent ==
    last.op = "apply_filters" => last.twice = last.once

\* a two-sided range narrowed a table in both steps, and the second pass kept
\* every row of the first
C5_Witness ==
    /\ last.op = "apply_filters" /\ Len(last.filters) = 2
    /\ last.filters[1].type = "number_range" /\ last.filters[1].min = Str(<<"2">>)
    /\ ~IsError(last.once)
    /\ Len(last.once.data) = 1 /\ Len(source.data) = 3
    /\ last.twice = last.once

(***************************************************************************)
(* Claims about load_dataset (SpecFilter).                                 *)
(***************************************************************************)
\* C2: the materialised table has exactly the rows the dataset's filters
\* select from the source, whatever excluded_ids holds: exclusion only sets
\* the included flag to 0.
C2_RowCountIsFilteredCount ==
    (last.op = "load_dataset" /\ ~IsError(last.result))
    => /\ last.result.df # None
       /\ Len(last.result.df.data)
            = Len(ApplyFilters(source, Get(last.cfg, "filters", <<>>)).data)

\* a table of three rows was materialised with two of them excluded
C2_Witness ==
    /\ last.op = "load_dataset" /\ ~IsError(last.result)
    /\ Len(last.result.df.data) = 3
    /\ Cardinality({i \in 1..3 : last.result.df.data[i]["included"] = Num(0)}) = 2

\* C3: with the id_field column present a row is included exactly when the
\* text of its id_field value is not among excluded_ids; with the column
\* absent every row is included and materialisation raises nothing.
C3_IncludedFlag ==
    last.op = "load_dataset" =>
        LET id_field == Get(last.cfg, "id_field", "id")
            excluded == {StrOf(x) : x \in
                            {last.cfg.excluded_ids[i] : i \in 1..Len(last.cfg.excluded_ids)}}
            filtered == ApplyFilters(source, last.cfg.filters)
        IN IF IsError(last.result) THEN IsError(filtered)
           ELSE \A i \in 1..Len(last.result.df.data) :
                    LET row == last.result.df.data[i] IN
                    row["included"] =
                        IF id_field \in Columns(source)
                        THEN (IF AsStr(row[id_field], source.dtypes[id_field]) \in excluded
                              THEN Num(0) ELSE Num(1))
                        ELSE Num(1)

\* the id column is present, one row is excluded and another is included
C3_Witness ==
    /\ last.op = "load_dataset" /\ ~IsError(last.result)
    /\ "id_field" \notin DOMAIN last.cfg /\ "id" \in Columns(source)
    /\ \E i, j \in 1..Len(last.result.df.data) :
            /\ last.result.df.data[i]["included"] = Num(0)
            /\ last.result.df.data[j]["included"] = Num(1)

\* the id_field column is absent, excluded_ids is not empty, rows are included
C3_WitnessAbsent ==
    /\ last.op = "load_dataset" /\ ~IsError(last.result)
    /\ Get(last.cfg, "id_field", "id") \notin Columns(source)
    /\ last.cfg.excluded_ids # <<>>
    /\ Len(last.result.df.data) > 0


\* C12 as stated: a single multi filter with an empty list of values on a
\* column of the table leaves no rows.
EmptyMultiCall ==
    /\ last.op \in {"apply_filters", "builder_apply_filters"}
    /\ Len(last.filters) = 1
    /\ last.filters[1]["type"] = "multi"
    /\ last.filters[1]["values"] = <<>>
    /\ last.filters[1]["column"] \in Columns(source)

C12_EmptyMultiReturnsNoRows ==
    EmptyMultiCall => ~IsError(last.once) /\ Len(last.once.data) = 0

\* C12 (amended): a multi filter with an empty list of values on a column of
\* the table imposes no constraint; the table comes back unchanged, from
\* util/datasets.py and from the builder page alike.
C12_EmptyMultiIsNoOp ==
    EmptyMultiCall => last.once = source

C12_Witness ==
    /\ EmptyMultiCall
    /\ last.op = "apply_filters"
    /\ Len(source.data) >= 2
    /\ last.once = source

\* one range filter on a column of the table; its bounds as the code reads them
RangeCall ==
    /\ last.op = "apply_filters"
    /\ Len(last.filters) = 1
    /\ last.filters[1]["type"] \in {"date_range", "number_range"}
    /\ last.filters[1]["column"] \in Columns(source)

RangeBounds(f) ==
    IF f["type"] = "date_range" THEN <<Get(f, "start", None), Get(f, "end", None)>>
    ELSE <<Get(f, "min", None), Get(f, "max", None)>>

BoundGiven(v) == v # None /\ v # Str(<<>>)

BoundParses(f, v) ==
    IF f["type"] = "date_range" THEN ~IsError(ToDatetimeScalar(v)) ELSE ~IsError(Float(v))

RowParses(f, row) ==
    IF f["type"] = "date_range" THEN ToDatetimeCell(row[f["column"]]) # NaN
    ELSE ToNumericCell(row[f["column"]]) # NaN

GivenBoundsParse(f) ==
    \A k \in 1..2 : BoundGiven(RangeBounds(f)[k]) => BoundParses(f, RangeBounds(f)[k])

\* C13 as stated: after a date_range or number_range filter on a column of
\* the table, with both, one or no bound given, no row whose value does not
\* parse is left and nothing is raised.
C13_UnparseableRowsAbsent ==
    RangeCall /\ GivenBoundsParse(last.filters[1]) =>
        /\ ~IsError(last.once)
        /\ \A i \in 1..Len(last.once.data) : RowParses(last.filters[1], last.once.data[i])

\* C13 (amended): the rows that do not parse are dropped when at least one
\* bound is given; with no bound given the table comes back unchanged.
C13_UnparseableRowsAbsentUnderBound ==
    RangeCall /\ GivenBoundsParse(last.filters[1]) =>
        /\ ~IsError(last.once)
        /\ IF \E k \in 1..2 : BoundGiven(RangeBounds(last.filters[1])[k])
           THEN \A i \in 1..Len(last.once.data) :
                    RowParses(last.filters[1], last.once.data[i])
           ELSE last.once = source

C13_Witness ==
    /\ RangeCall /\ GivenBoundsParse(last.filters[1])
    /\ last.filters[1]["type"] = "date_range"
    /\ BoundGiven(RangeBounds(last.filters[1])[2])
    /\ ~BoundGiven(RangeBounds(last.filters[1])[1])
    /\ \E i \in 1..Len(source.data) : ~RowParses(last.filters[1], source.data[i])
    /\ ~IsError(last.once)
    /\ Len(last.once.data) >= 1

\* the filter f with its k-th bound left out
WithoutBound(f, k) ==
    IF f["type"] = "date_range"
    THEN [f EXCEPT ![IF k = 1 THEN "start" ELSE "end"] = None]
    ELSE [f EXCEPT ![IF k = 1 THEN "min" ELSE "max"] = None]

\* C14: a range filter with one bound that is no date or no number raises
\* nothing and gives what the filter without that bound gives (the other
\* bound applied inclusively).
C14_UnparseableBoundIgnored ==
    \A k \in 1..2 :
        ( /\ RangeCall
          /\ BoundGiven(RangeBounds(last.filters[1])[k])
          /\ ~BoundParses(last.filters[1], RangeBounds(last.filters[1])[k])
          /\ BoundGiven(RangeBounds(last.filters[1])[3 - k])
          /\ BoundParses(last.filters[1], RangeBounds(last.filters[1])[3 - k]) )
        => /\ ~IsError(last.once)
           /\ last.once = ApplyFilters(source, <<WithoutBound(last.filters[1], k)>>)
           /\ \A i \in 1..Len(source.data) :
                (source.index[i] \in {last.once.index[j] : j \in 1..Len(last.once.index)})
                    <=> IF last.filters[1]["type"] = "date_range"
                        THEN IF k = 1
                             THEN CellLE(ToDatetimeCell(source.data[i][last.filters[1]["column"]]),
                                         ToDatetimeScalar(RangeBounds(last.filters[1])[2]))
                             ELSE CellGE(ToDatetimeCell(source.data[i][last.filters[1]["column"]]),
                                         ToDatetimeScalar(RangeBounds(last.filters[1])[1]))
                        ELSE IF k = 1
                             THEN CellLE(ToNumericCell(source.data[i][last.filters[1]["column"]]),
                                         Float(RangeBounds(last.filters[1])[2]))
                             ELSE CellGE(ToNumericCell(source.data[i][last.filters[1]["column"]]),
                                         Float(RangeBounds(last.filters[1])[1]))

\* C15: a filter list and any reordering of it give the same rows (or both
\* raise), and the rows keep the order they have in the source table.
C15_OrderIrrelevant ==
    last.op = "apply_permuted" =>
        /\ IsError(last.once) <=> IsError(last.other)
        /\ ~IsError(last.once) =>
            /\ last.once = last.other
            /\ \A i, j \in 1..Len(last.once.index) :
                    i < j => last.once.index[i] < last.once.index[j]
            /\ \A i \in 1..Len(last.once.index) :
                    last.once.data[i] = source.data[last.once.index[i] + 1]

C15_Witness ==
    /\ last.op = "apply_permuted"
    /\ last.filters # last.permuted
    /\ ~IsError(last.once)
    /\ Len(last.once.data) >= 1
    /\ Len(last.once.data) < Len(ApplyFilters(source, <<last.filters[1]>>).data)
    /\ Len(last.once.data) < Len(ApplyFilters(source, <<last.filters[2]>>).data)
    /\ last.once = last.other

(***************************************************************************)
(* SpecStore: the dataset store under save_dataset_config,                 *)
(* load_dataset_config, delete_dataset, duplicate_dataset and load_dataset.*)
(* last.before is the store before the operation; last.trip follows a      *)
(* duplicate through an optional save of its result to the load of the     *)
(* copy.                                                                   *)
(***************************************************************************)
Names == {N_ab, N_a_space_b, N_a_under_b}

Descriptions == {<<"x">>}

\* a config as the builder saves it, and one that also carries timestamps
DocBodies ==
    { [description |-> <<"d">>, columns |-> <<"species", "date">>,
       filters |-> <<[type |-> "equals", column |-> "species", value |-> Str(<<"a", "b">>)]>>,
       excluded_ids |-> <<Str(<<"1">>)>>, id_field |-> "id"],
      [description |-> <<>>, columns |-> <<>>, filters |-> <<>>,
       excluded_ids |-> <<Str(<<"3">>), Str(<<"1">>)>>, id_field |-> "id",
       created_at |-> <<"t">>, updated_at |-> <<"t">>] }

Docs == { WithKey(b, "name", n) : b \in DocBodies, n \in Names }

\* the directory at start: empty, or holding one document written earlier
InitialStores ==
    {NoStore} \cup { WriteFile(NoStore, DatasetConfigPath(d["name"]), d) : d \in Docs }

\* one table stands for the sightings file here: the first rows of the pool
StoreSourceTables ==
    { LoadedFrame(SubSeq(RowPool, 1, MaxRows), {"id", "species", "date", "year"}) }

NoTrip == [stage |-> "none"]

InitStore ==
    /\ source \in StoreSourceTables
    /\ store \in InitialStores
    /\ ss = NoSession
    /\ last = [op |-> "none", trip |-> NoTrip]

\* the configs save_dataset_config is called with: each body under each name
\* (and under no name), and the config duplicate_dataset has just returned
SaveInputs ==
    { WithKey(b, "name", n) : b \in DocBodies, n \in Names \cup {<<>>} }
    \cup (IF last.trip.stage = "duplicated" THEN {last.trip.cfg} ELSE {})

\* save_dataset_config(config)
CallSave ==
    \E config \in SaveInputs :
        LET r == SaveDatasetConfig(store, config)
        IN /\ store' = r.store
           /\ last' = [op |-> "save", config |-> config, raised |-> r.raised,
                       before |-> store,
                       trip |-> IF last.trip.stage = "duplicated" /\ last.trip.cfg = config
                                THEN [last.trip EXCEPT !.stage = "saved"] ELSE NoTrip]
           /\ UNCHANGED <<source, ss>>

\* duplicate_dataset(base_name, new_name[, new_description=...])
CallDuplicate ==
    \E base_name \in Names, new_name \in Names \cup {<<>>},
       new_description \in {NotGiven} \cup Descriptions :
        LET r == DuplicateDataset(store, base_name, new_name, new_description)
        IN /\ store' = r.store
           /\ last' = [op |-> "duplicate", base_name |-> base_name, new_name |-> new_name,
                       new_description |-> new_description,
                       result |-> r.result, raised |-> r.raised, before |-> store,
                       trip |-> IF r.result # None
                                THEN [stage |-> "duplicated",
                                      base |-> LoadDatasetConfig(store, base_name),
                                      copy |-> new_name, cfg |-> r.result]
                                ELSE NoTrip]
           /\ UNCHANGED <<source, ss>>

\* delete_dataset(name)
CallDelete ==
    \E name \in Names :
        /\ store' = DeleteDataset(store, name)
        /\ last' = [op |-> "delete", name |-> name, before |-> store, trip |-> NoTrip]
        /\ UNCHANGED <<source, ss>>

\* load_dataset_config(name)
CallLoadConfig ==
    \E name \in Names :
        /\ last' = [op |-> "load_config", name |-> name,
                    result |-> LoadDatasetConfig(store, name), before |-> store,
                    trip |-> NoTrip]
        /\ UNCHANGED <<source, store, ss>>

\* load_dataset(name)
CallLoad ==
    \E name \in Names : \E order \in ExcludedOrders(store, name) :
        /\ last' = [op |-> "load_dataset", name |-> name,
                    result |-> LoadDataset(store, name, source, order), before |-> store,
                    trip |-> IF last.trip.stage \in {"duplicated", "saved"}
                                /\ last.trip.copy = name
                             THEN [stage |-> "loaded", via |-> last.trip.stage,
                                   base |-> last.trip.base, copy |-> last.trip.copy]
                             ELSE NoTrip]
        /\ UNCHANGED <<source, store, ss>>

NextStore == CallSave \/ CallDuplicate \/ CallDelete \/ CallLoadConfig \/ CallLoad

SpecStore == InitStore /\ [][NextStore]_vars

(***************************************************************************)
(* Claims about duplicate_dataset (SpecStore).                             *)
(***************************************************************************)
DupBase == LoadDatasetConfig(last.before, last.base_name)

Timestamps == {"created_at", "updated_at"}

\* C8: the config duplicate returns equals the stored base on every field
\* but name (the new name), description (replaced only when a new one is
\* given) and created_at / updated_at (not carried over).
C8_DuplicateCopiesFields ==
    (last.op = "duplicate" /\ last.result # None) =>
        /\ DupBase # None
        /\ last.result["name"] = last.new_name
        /\ DOMAIN last.result \cap Timestamps = {}
        /\ \A k \in DOMAIN DupBase \ ({"name", "description"} \cup Timestamps) :
                k \in DOMAIN last.result /\ last.result[k] = DupBase[k]
        /\ (DOMAIN last.result \ {"name", "description"}) \subseteq DOMAIN DupBase
        /\ IF last.new_description # NotGiven
           THEN last.result["description"] = last.new_description
           ELSE /\ "description" \in DOMAIN last.result <=> "description" \in DOMAIN DupBase
                /\ "description" \in DOMAIN DupBase
                    => last.result["description"] = DupBase["description"]

\* a base that carries timestamps and excluded ids was duplicated under
\* another name without a new description
C8_Witness ==
    /\ last.op = "duplicate" /\ last.result # None
    /\ last.new_description = NotGiven
    /\ "created_at" \in DOMAIN DupBase
    /\ DupBase["name"] # last.new_name
    /\ last.result["excluded_ids"] = <<Str(<<"3">>), Str(<<"1">>)>>

\* C9 as claimed: duplicate leaves the set of stored datasets and their
\* contents as they were.
C9_DuplicateDoesNotWrite ==
    last.op = "duplicate" => store = last.before

\* C9 as the code has it: duplicate saves the copy itself.  When the base is
\* stored and the new name is not empty, the file of the new name holds the
\* returned copy right after duplicate (it is loadable without a further
\* save) and every other file is as before; otherwise nothing is written.
C9_DuplicateSavesCopy ==
    last.op = "duplicate" =>
        IF DupBase # None /\ last.new_name # <<>>
        THEN /\ last.result # None
             /\ LoadDatasetConfig(store, last.new_name) = last.result
             /\ DOMAIN store = DOMAIN last.before \cup {DatasetConfigPath(last.new_name)}
             /\ \A q \in DOMAIN last.before :
                    q # DatasetConfigPath(last.new_name) => store[q] = last.before[q]
        ELSE store = last.before /\ last.result = None

\* duplicate created a file that did not exist, beside the base
C9_Witness ==
    /\ last.op = "duplicate" /\ last.result # None
    /\ DatasetConfigPath(last.new_name) \notin DOMAIN last.before
    /\ DatasetConfigPath(last.new_name) \in DOMAIN store
    /\ DatasetConfigPath(last.base_name) \in DOMAIN store

\* C10: duplicate D as a copy, (save it,) load the copy: the loaded filters
\* and columns are D's, and the loaded excluded_ids are D's as a set.
C10_RoundTrip ==
    (last.op = "load_dataset" /\ last.trip.stage = "loaded") =>
        /\ ~IsError(last.result) /\ last.result.meta # None
        /\ last.result.meta.filters = last.trip.base["filters"]
        /\ last.result.meta.columns = last.trip.base["columns"]
        /\ {Str(last.result.meta.excluded_ids[i]) :
                i \in 1..Len(last.result.meta.excluded_ids)}
            = {last.trip.base["excluded_ids"][i] :
                i \in 1..Len(last.trip.base["excluded_ids"])}

\* the copy of a base with two excluded ids was saved once more and loaded,
\* and the loaded list has them in the other order
C10_Witness ==
    /\ last.op = "load_dataset" /\ last.trip.stage = "loaded" /\ last.trip.via = "saved"
    /\ last.trip.base["name"] # last.name
    /\ Len(last.trip.base["excluded_ids"]) = 2
    /\ last.result.meta.excluded_ids # <<StrOf(last.trip.base["excluded_ids"][1]),
                                         StrOf(last.trip.base["excluded_ids"][2])>>

(***************************************************************************)
(* views/data_sets.py: the dataset builder page.  One action is one user   *)
(* interaction: the script run it triggers and, where the handler calls    *)
(* st.rerun(), the run that follows.  ss holds st.session_state and the    *)
(* state of the keyed widgets.  The data editor returns the frame it is    *)
(* given with the edit the user made in this run; a text input shows the   *)
(* value it is given unless the user types; a keyed checkbox keeps its     *)
(* state while the value it is given stays the same, and takes the value   *)
(* given when that changes; the selectbox keeps its choice while it is     *)
(* among the options and falls back to the first option otherwise.         *)
(***************************************************************************)
\* the first option of the "Laden" selectbox
Neu == <<"Neu">>

DEFAULT_COLUMNS == <<"ring", "reading", "species", "place", "date", "status">>

\* the order of the columns of the sightings table
ColumnOrder == <<"id", "species", "date", "year">>

\* the keys of util.col_mapping.mapping, in the order of their labels: the
\* attributes the builder names, which do not include id
MappedColumns == <<"species", "date", "year">>

InSeq(x, seq) == \E i \in 1..Len(seq) : seq[i] = x

\* list.remove(x): the first occurrence is removed
RemoveFirst(seq, x) ==
    LET i == CHOOSE k \in 1..Len(seq) : seq[k] = x /\ \A j \in 1..(k - 1) : seq[j] # x
    IN SubSeq(seq, 1, i - 1) \o SubSeq(seq, i + 1, Len(seq))

\* _internal_columns(df), in df's column order
InternalColumns(df) ==
    SelectSeq(ColumnOrder, LAMBDA c : c \in Columns(df) /\ InSeq(c, MappedColumns))

\* the checkboxes _columns_selector_ui draws, sorted by label
ColumnPairs(df) == SelectSeq(MappedColumns, LAMBDA c : c \in Columns(df))

\* list_dataset_names(): the stems of the .json files of DATASETS_DIR
ListDatasetNames(st) == {q.stem : q \in {f \in DOMAIN st : f.dir = "datasets"}}

\* working.reset_index(drop=True)
ResetIndex(df) == [df EXCEPT !.index = [i \in 1..Len(df.data) |-> i - 1]]

\* no interaction with a widget of the given kind in this run
NoEvent == [kind |-> "none"]

\* render_data_sets, lines 341-345: the name and description inputs
Metadata(s, ev) ==
    [s EXCEPT !.ds_name = IF ev.kind = "name" THEN ev.text ELSE @,
              !.ds_description = IF ev.kind = "description" THEN ev.text ELSE @]

\* what checkbox c returns: its kept state (flipped when the user clicked it)
\* while the value it is given is the one it was last given, else that value
IsChecked(s, c, value, ev) ==
    IF s.w_colchk[c].param = value
    THEN (IF ev.kind = "column" /\ ev.column = c
          THEN ~s.w_colchk[c].state ELSE s.w_colchk[c].state)
    ELSE value

RECURSIVE SyncColumns(_, _, _, _)
\* the loop of _columns_selector_ui over the checkboxes in pairs
SyncColumns(s, pairs, columns, ev) ==
    IF pairs = <<>> THEN columns
    ELSE LET c == Head(pairs)
             is_checked == IsChecked(s, c, InSeq(c, columns), ev)
         IN SyncColumns(s, Tail(pairs),
                IF is_checked /\ ~InSeq(c, columns) THEN Append(columns, c)
                ELSE IF ~is_checked /\ InSeq(c, columns) THEN RemoveFirst(columns, c)
                ELSE columns, ev)

\* _columns_selector_ui(df_all) and line 349
ColumnsSelector(s, ev) ==
    LET all == IF ev.kind = "select_all_columns"
               THEN ~s.w_col_select_all ELSE s.w_col_select_all
        base == IF all THEN InternalColumns(source) ELSE s.ds_columns
        pairs == ColumnPairs(source)
    IN [s EXCEPT !.w_col_select_all = all,
                 !.ds_columns = SyncColumns(s, pairs, base, ev),
                 !.w_colchk = [c \in DOMAIN s.w_colchk |->
                                  [param |-> InSeq(c, base),
                                   state |-> IsChecked(s, c, InSeq(c, base), ev)]]]

\* line 354: the rows the builder shows
Working(s) == ResetIndex(BuilderApplyFilters(source, s.ds_filters))

\* lines 358-360: str(i) of the ids of the working rows
WorkingIds(working) ==
    [i \in 1..Len(working.data) |->
        IF "id" \in Columns(working)
        THEN AsStr(working.data[i]["id"], working.dtypes["id"]) ELSE <<>>]

\* line 360: the flag of each working row
IncludedFlags(ids, excluded_ids) == [i \in 1..Len(ids) |-> ids[i] \notin excluded_ids]

\* lines 398-408: the "Aufnehmen" column the editor returns
UpdatedFlags(included_flags, ev) ==
    [i \in 1..Len(included_flags) |->
        IF ev.kind = "row" /\ ev.row = i THEN ~included_flags[i] ELSE included_flags[i]]

\* (mutant) the ids not ticked are added to the set kept so far
NewExcludedMerging(ids, updated_flags, excluded_ids) ==
    excluded_ids \cup {ids[i] : i \in {k \in 1..Len(ids) : ~updated_flags[k]}}

\* lines 409-412: the ids of the rows not ticked; the set kept so far is
\* not read
NewExcluded(ids, updated_flags, excluded_ids) ==
    {ids[i] : i \in {k \in 1..Len(ids) : ~updated_flags[k]}}

\* lines 356-413 for the working rows given
RowSelectionOn(s, ev, working, ids) ==
    IF "id" \in Columns(working)
    THEN [s EXCEPT !.ds_excluded_ids =
                     NewExcluded(ids, UpdatedFlags(IncludedFlags(ids, @), ev), @)]
    ELSE s

\* lines 354-413: the editor's flags, and excluded_ids rebuilt from them
RowSelection(s, ev) == RowSelectionOn(s, ev, Working(s), WorkingIds(Working(s)))

\* _load_into_builder(name)
LoadIntoBuilder(st, s, name) ==
    LET loaded == LoadDatasetConfig(st, name)
        cfg == IF loaded = None THEN [k \in {} |-> None] ELSE loaded
    IN [s EXCEPT !.ds_name = Get(cfg, "name", name),
                 !.ds_description = Get(cfg, "description", <<>>),
                 !.ds_filters = Get(cfg, "filters", <<>>),
                 !.ds_columns = Get(cfg, "columns", <<>>),
                 !.ds_excluded_ids = StrSet(Get(cfg, "excluded_ids", <<>>))]

(***************************************************************************)
(* render_data_sets as one run of the script.  A run carries the           *)
(* directory, the session, the config it saved and how it ended: "no"      *)
(* while it goes on, "rerun" at st.rerun(), "raised" at an exception.      *)
(***************************************************************************)
StartRun(st, s) == [store |-> st, ss |-> s, saved |-> None, done |-> "no"]

\* lines 310-324: the "Laden" selectbox with its two buttons
SelectStage(r, ev) ==
    LET names == ListDatasetNames(r.store)
        selected == IF ev.kind = "pick" THEN ev.choice
                    ELSE IF r.ss.w_select \in names THEN r.ss.w_select ELSE Neu
    IN IF selected = Neu
       THEN [r EXCEPT !.ss.w_select = Neu, !.ss.ds_selected_existing = NotGiven,
                      !.ss.ds_columns = DEFAULT_COLUMNS]
       ELSE IF ev.kind = "load"
       THEN [r EXCEPT !.ss = [LoadIntoBuilder(r.store, r.ss, selected)
                                 EXCEPT !.w_select = selected,
                                        !.ds_selected_existing = selected],
                      !.done = "rerun"]
       ELSE IF ev.kind = "delete"
       THEN [r EXCEPT !.ss.w_select = selected,
                      !.store = DeleteDataset(r.store, selected), !.done = "rerun"]
       ELSE [r EXCEPT !.ss.w_select = selected]

\* lines 337-339: the copy is made, or duplicate_dataset raises
DuplicateDone(r, copy) ==
    IF copy.raised # "no" THEN [r EXCEPT !.done = "raised"]
    ELSE [r EXCEPT !.store = copy.store, !.done = "rerun"]

\* lines 333-339 once a name for the copy is given
DuplicateFrom(r, source_name, new_name) ==
    IF source_name = <<>> THEN r
    ELSE DuplicateDone(r, DuplicateDataset(r.store, source_name, new_name,
                                           r.ss.ds_description))

\* lines 328-339: "Als Kopie speichern"
DuplicateStage(r, ev) ==
    IF r.done # "no" \/ ev.kind # "duplicate" \/ ev.new_name = <<>> THEN r
    ELSE DuplicateFrom(r, IF r.ss.ds_selected_existing # NotGiven
                          THEN r.ss.ds_selected_existing ELSE r.ss.ds_name, ev.new_name)

\* lines 341-349: name, description and columns
EditStage(r, ev) ==
    IF r.done # "no" THEN r
    ELSE [r EXCEPT !.ss = ColumnsSelector(Metadata(r.ss, ev), ev)]

\* _filter_builder_ui: the buttons that change ds_filters and call st.rerun()
FilterStage(r, ev) ==
    IF r.done # "no" THEN r
    ELSE IF ev.kind = "add_filter"
    THEN [r EXCEPT !.ss.ds_filters = Append(@, ev.filter), !.done = "rerun"]
    ELSE IF ev.kind = "remove_filter"
    THEN [r EXCEPT !.ss.ds_filters = SubSeq(@, 1, ev.idx - 1) \o
                                     SubSeq(@, ev.idx + 1, Len(@)),
                   !.done = "rerun"]
    ELSE IF ev.kind = "clear_filters"
    THEN [r EXCEPT !.ss.ds_filters = <<>>, !.done = "rerun"]
    ELSE r

\* lines 354-413: the editor
RowStage(r, ev) ==
    IF r.done # "no" THEN r ELSE [r EXCEPT !.ss = RowSelection(r.ss, ev)]

\* (mutant) the id of the first row is left out
AllIdsButFirst(ids) == {ids[i] : i \in 2..Len(ids)}

\* line 424: set(str(x) for x in ids_series.tolist())
AllIds(ids) == {ids[i] : i \in 1..Len(ids)}

\* lines 450-457: the config the save button writes; order ranks the ids,
\* standing for the order list(ds_excluded_ids) happens to give
BuilderConfig(s, order) ==
    [name |-> s.ds_name, description |-> s.ds_description,
     columns |-> s.ds_columns, filters |-> s.ds_filters,
     excluded_ids |-> [i \in 1..Len(SelectSeq(order, LAMBDA x : x \in s.ds_excluded_ids)) |->
                          Str(SelectSeq(order, LAMBDA x : x \in s.ds_excluded_ids)[i])],
     id_field |-> "id"]

\* lines 446-461 with a name given
SaveAs(r, cfg) ==
    [r EXCEPT !.store = SaveDatasetConfig(r.store, cfg).store, !.saved = cfg,
              !.ss.ds_selected_existing = r.ss.ds_name, !.done = "rerun"]

\* lines 417-461: the buttons under the editor
ButtonStage(r, ev) ==
    IF r.done # "no" THEN r
    ELSE IF ev.kind = "select_all"
    THEN [r EXCEPT !.ss.ds_excluded_ids = {}, !.done = "rerun"]
    ELSE IF ev.kind = "select_none" /\ "id" \in Columns(source)
    THEN [r EXCEPT !.ss.ds_excluded_ids = AllIds(WorkingIds(Working(r.ss))),
                   !.done = "rerun"]
    ELSE IF ev.kind = "save" /\ r.ss.ds_name # <<>>
    THEN SaveAs(r, BuilderConfig(r.ss, ev.order))
    ELSE r

\* one run of render_data_sets with the interaction ev
Script(r, ev) ==
    ButtonStage(RowStage(FilterStage(EditStage(DuplicateStage(SelectStage(r, ev), ev),
                                               ev), ev), ev), ev)

\* st.rerun(): the script runs again, with no interaction
Rerun(r) == IF r.done = "rerun" THEN Script([r EXCEPT !.done = "no"], NoEvent) ELSE r

\* an interaction: the run it triggers and the run after st.rerun()
Interact(st, s, ev) == Rerun(Script(StartRun(st, s), ev))

(***************************************************************************)
(* The builder page as a state machine.                                    *)
(***************************************************************************)
\* the sightings file of a session: the first rows of the pool, with or
\* without the id column
BuilderSourceTables ==
    { LoadedFrame(SubSeq(RowPool, 1, MaxRows), cols) :
        cols \in { {"id", "species", "date", "year"}, {"species", "date", "year"} } }

\* the directory at start: empty, or holding one dataset saved earlier
BuilderInitialStores ==
    {NoStore} \cup { WriteFile(NoStore, DatasetConfigPath(N_ab), WithKey(b, "name", N_ab)) :
                        b \in DocBodies }

\* what the user types as a name, as a description, as the name of a copy
NameInputs == {N_ab}
DescriptionInputs == {<<"x">>}
CopyNameInputs == {N_a_under_b}

\* the checkbox of the column selector the user clicks
ColumnInputs == {"year"}

\* what the "Filter hinzufügen" expander can append for the table df
BuilderFilterInputs(df) ==
    { f \in { [type |-> "equals", column |-> "species", value |-> Str(<<"a", "b">>)],
              [type |-> "number_range", column |-> "year",
                    min |-> Str(<<"2", "0", "2", "1">>), max |-> Str(<<>>)] } :
        /\ InSeq(f.column, InternalColumns(df))
        /\ (f.type = "equals"
              => \E i \in 1..Len(df.data) : df.data[i][f.column] = f.value) }

\* _ensure_builder_state(), with the widgets as they are first drawn
FirstSession ==
    [ds_name |-> <<>>, ds_description |-> <<>>, ds_filters |-> <<>>,
     ds_columns |-> <<>>, ds_excluded_ids |-> {}, ds_selected_existing |-> NotGiven,
     w_select |-> Neu, w_col_select_all |-> FALSE,
     w_colchk |-> [c \in {"species", "date", "year"} |->
                     [param |-> InSeq(c, DEFAULT_COLUMNS), state |-> InSeq(c, DEFAULT_COLUMNS)]]]

\* the session fields the claims compare across an interaction
Seen(s) == [excluded |-> s.ds_excluded_ids, filters |-> s.ds_filters, columns |-> s.ds_columns]

Init ==
    /\ source \in BuilderSourceTables
    /\ store \in BuilderInitialStores
    /\ "id" \notin Columns(source) => store = NoStore
    /\ ss = Interact(store, FirstSession, NoEvent).ss
    /\ last = [op |-> "none", ev |-> NoEvent, before |-> Seen(FirstSession), saved |-> None,
               carried |-> {}, filters_edited |-> FALSE, writes |-> 0, steps |-> 0]

\* the interaction ev happens.  last keeps the interaction, the session
\* fields as they were before it, the config it saved, the ids the last
\* load brought in if no row edit has touched them since (carried), whether
\* a filter was edited since that load, the number of writes to the
\* directory and the number of interactions of the session
Perform(ev, carried, filters_edited) ==
    /\ last.steps < MaxSteps
    /\ \E r \in {Interact(store, ss, ev)} :
          /\ r.store = store \/ last.writes < MaxWrites
          /\ store' = r.store
          /\ ss' = r.ss
          /\ last' = [op |-> ev.kind, ev |-> ev, before |-> Seen(ss), saved |-> r.saved,
                      carried |-> carried, filters_edited |-> filters_edited,
                      writes |-> IF r.store = store THEN last.writes ELSE last.writes + 1,
                      steps |-> last.steps + 1]
    /\ UNCHANGED source

\* the user picks another entry of the "Laden" selectbox
PickExisting ==
    \E n \in (ListDatasetNames(store) \cup {Neu}) \ {ss.w_select} :
        Perform([kind |-> "pick", choice |-> n], last.carried, last.filters_edited)

\* "Auswählen", lines 313-316
LoadBtn ==
    /\ ss.w_select \in ListDatasetNames(store)
    /\ Perform([kind |-> "load"], LoadIntoBuilder(store, ss, ss.w_select).ds_excluded_ids, FALSE)

\* "Löschen", lines 317-320
DeleteBtn ==
    /\ ss.w_select \in ListDatasetNames(store)
    /\ Perform([kind |-> "delete"], last.carried, last.filters_edited)

\* "Als Kopie speichern", lines 328-339
DuplicateBtn ==
    \E new_name \in CopyNameInputs :
        Perform([kind |-> "duplicate", new_name |-> new_name], last.carried,
                last.filters_edited)

\* the user types a name, lines 342
EditName ==
    \E text \in NameInputs \ {ss.ds_name} :
        Perform([kind |-> "name", text |-> text], last.carried, last.filters_edited)

\* the user types a description, lines 343-345
EditDescription ==
    \E text \in DescriptionInputs \ {ss.ds_description} :
        Perform([kind |-> "description", text |-> text], last.carried, last.filters_edited)

\* the user clicks the checkbox of a column
ToggleColumn ==
    \E c \in ColumnInputs :
        /\ InSeq(c, ColumnPairs(source))
        /\ Perform([kind |-> "column", column |-> c], last.carried, last.filters_edited)

\* the user clicks "Alle auswählen" above the column checkboxes
ToggleSelectAllColumns ==
    Perform([kind |-> "select_all_columns"], last.carried, last.filters_edited)

\* a "Filter hinzufügen" button, lines 164-239
AddFilter ==
    \E f \in BuilderFilterInputs(source) :
        /\ Len(ss.ds_filters) < MaxBuilderFilters
        /\ Perform([kind |-> "add_filter", filter |-> f], last.carried, TRUE)

\* "Entfernen", lines 112-114
RemoveFilter ==
    \E idx \in 1..Len(ss.ds_filters) :
        Perform([kind |-> "remove_filter", idx |-> idx], last.carried, TRUE)

\* "Alle Filter entfernen", lines 115-117
ClearFilters ==
    /\ Len(ss.ds_filters) > 0
    /\ Perform([kind |-> "clear_filters"], last.carried, TRUE)

\* the user clicks the "Aufnehmen" box of row i of the editor
ToggleRow ==
    \E i \in 1..Len(Working(ss).data) :
        Perform([kind |-> "row", row |-> i], {}, last.filters_edited)

\* "Alle auswählen" under the editor, lines 419-421
SelectAll == Perform([kind |-> "select_all"], {}, last.filters_edited)

\* "Alle abwählen", lines 423-425
SelectNone == Perform([kind |-> "select_none"], {}, last.filters_edited)

\* "Datensatz speichern", lines 446-461
SaveBtn ==
    \E order \in Orderings(ss.ds_excluded_ids) :
        Perform([kind |-> "save", order |-> order], last.carried, last.filters_edited)

Next ==
    \/ PickExisting \/ LoadBtn \/ DeleteBtn \/ DuplicateBtn
    \/ EditName \/ EditDescription \/ ToggleColumn \/ ToggleSelectAllColumns
    \/ AddFilter \/ RemoveFilter \/ ClearFilters
    \/ ToggleRow \/ SelectAll \/ SelectNone \/ SaveBtn

Spec == Init /\ [][Next]_vars

(***************************************************************************)
(* Claims about the builder page, checked under Spec.                      *)
(***************************************************************************)
\* the stringified ids of the rows the builder shows
ShownIds == {WorkingIds(Working(ss))[i] : i \in 1..Len(Working(ss).data)}

\* C1 (as the spec states it): when a dataset was loaded into the builder,
\* a filter was edited afterwards and the dataset is saved, every id the
\* load brought into excluded_ids that no shown row carries is still in the
\* saved excluded_ids.  The code does not keep them: line 413 rebuilds
\* ds_excluded_ids from the shown rows on every run of the script.
C1_StaleIdsSurviveSave ==
    (last.op = "save" /\ last.saved # None /\ last.filters_edited)
        => \A x \in last.carried :
              x \notin ShownIds => x \in StrSet(last.saved["excluded_ids"])

C7_SelectNoneExcludesShown ==
    (last.op = "select_none" /\ "id" \in Columns(Working(ss)))
        => /\ ss.ds_excluded_ids = ShownIds
           /\ \A order \in Orderings(ss.ds_excluded_ids) :
                LET m == Materialize(BuilderConfig(ss, order), ss.ds_name, source, order)
                IN IsError(m) \/
                   \A i \in 1..Len(m.df.data) :
                      AsStr(m.df.data[i]["id"], m.df.dtypes["id"]) \in ShownIds
                          => m.df.data[i]["included"] = Num(0)

\* "Alle abwählen" with a filter that hides a row, rows shown, and none of
\* them excluded before
C7_Witness ==
    /\ last.op = "select_none"
    /\ "id" \in Columns(Working(ss))
    /\ ss.ds_filters # <<>>
    /\ Len(Working(ss).data) > 0
    /\ Len(Working(ss).data) < Len(source.data)
    /\ last.before.excluded = {}
    /\ ss.ds_excluded_ids = ShownIds

(***************************************************************************)
(* util/storage.py and views/data_view.py: saved views.  The view files    *)
(* live in STORAGE_DIR, the directory that holds DATASETS_DIR.             *)
(***************************************************************************)
\* _view_path(name): the unsafe characters are dropped and the ends
\* stripped; a space inside the name stays
ViewPath(name) == [dir |-> "storage", stem |-> Strip(SelectSeq(name, SafeChar))]

\* save_view(view): [store, raised]
SaveView(st, view) ==
    IF "name" \notin DOMAIN view THEN [store |-> st, raised |-> "KeyError"]
    ELSE [store |-> WriteFile(st, ViewPath(view["name"]), view), raised |-> "no"]

\* load_view(name)
LoadView(st, name) == IF ViewPath(name) \in DOMAIN st THEN st[ViewPath(name)] ELSE None

\* delete_view(name)
DeleteView(st, name) ==
    IF ViewPath(name) \in DOMAIN st THEN RemoveFile(st, ViewPath(name)) ELSE st

\* views/data_view.py _apply_filters(df, filters): the loop of util/datasets.py
ViewApplyFilters(df, filters) == FoldFilters(df, filters)

\* df[cols]: the listed columns in the listed order, KeyError when one of
\* them is not a column of df
Project(df, cols) ==
    IF \E k \in 1..Len(cols) : cols[k] \notin Columns(df) THEN Error("KeyError")
    ELSE [columns |-> cols, index |-> df.index,
          data |-> [i \in 1..Len(df.data) |-> [c \in {cols[k] : k \in 1..Len(cols)} |-> df.data[i][c]]]]

\* _display_dataframe(df, selected_columns), lines 70-71: the frame shown
DisplayDataframe(df, selected_columns) ==
    Project(df, IF selected_columns = None \/ selected_columns = <<>>
                THEN InternalColumns(df) ELSE selected_columns)

\* _views_management_ui, lines 339-346, for the view v just loaded
ShowView(v, df) ==
    IF v = None \/ DOMAIN v = {} THEN None
    ELSE IF IsError(ViewApplyFilters(df, Get(v, "filters", <<>>)))
    THEN ViewApplyFilters(df, Get(v, "filters", <<>>))
    ELSE DisplayDataframe(ViewApplyFilters(df, Get(v, "filters", <<>>)),
                          Get(v, "columns", None))

\* the active view resolved against df
ApplyActiveView(st, active_name, df) == ShowView(LoadView(st, active_name), df)

\* the views that get saved: one over columns of the table, one that also
\* lists a column the table does not have
ViewBodies ==
    { [description |-> <<"d">>, columns |-> <<"species", "date">>,
       filters |-> <<[type |-> "equals", column |-> "species", value |-> Str(<<"a", "b">>)]>>],
      [description |-> <<>>, columns |-> <<"date", "ring", "species">>, filters |-> <<>>] }

ViewNames == {N_ab, N_a_space_b}

ViewInputs == { WithKey(b, "name", n) : b \in ViewBodies, n \in ViewNames }

InitViews ==
    /\ source \in StoreSourceTables
    /\ store = NoStore
    /\ ss = NoSession
    /\ last = [op |-> "none", trip |-> NoTrip]

\* save_view(view)
CallSaveView ==
    \E view \in ViewInputs :
        /\ store' = SaveView(store, view).store
        /\ last' = [op |-> "save_view", view |-> view, raised |-> SaveView(store, view).raised,
                    before |-> store, trip |-> NoTrip]
        /\ UNCHANGED <<source, ss>>

\* load_view(name)
CallLoadView ==
    \E name \in ViewNames :
        /\ last' = [op |-> "load_view", name |-> name, result |-> LoadView(store, name),
                    before |-> store, trip |-> NoTrip]
        /\ UNCHANGED <<source, store, ss>>

\* delete_view(name)
CallDeleteView ==
    \E name \in ViewNames :
        /\ store' = DeleteView(store, name)
        /\ last' = [op |-> "delete_view", name |-> name, before |-> store, trip |-> NoTrip]
        /\ UNCHANGED <<source, ss>>

\* "Anwenden": the view becomes the active view and is shown
CallApplyView ==
    \E name \in ViewNames :
        /\ last' = [op |-> "apply_view", name |-> name, view |-> LoadView(store, name),
                    result |-> ApplyActiveView(store, name, source),
                    before |-> store, trip |-> NoTrip]
        /\ UNCHANGED <<source, store, ss>>

NextViews ==
    \/ CallSaveView \/ CallLoadView \/ CallDeleteView \/ CallApplyView
    \/ CallSave \/ CallLoadConfig

SpecViews == InitViews /\ [][NextViews]_vars

\* C11: right after a save of a dataset config or of a view under a name,
\* whatever was saved before under that name, loading the name returns
\* exactly what this save wrote.
C11_LastSaveWins ==
    /\ (last.op = "save" /\ last.raised = "no")
          => LoadDatasetConfig(store, last.config["name"]) = last.config
    /\ (last.op = "save_view" /\ last.raised = "no")
          => LoadView(store, last.view["name"]) = last.view

\* a view is saved over a different view of the same name, while the
\* datasets directory holds a config saved earlier
C11_Witness ==
    /\ last.op = "save_view"
    /\ LoadView(last.before, last.view["name"]) # None
    /\ LoadView(last.before, last.view["name"]) # last.view
    /\ \E q \in DOMAIN store : q.dir = "datasets"

\* C16 (as the spec states it): showing a saved view whose columns list
\* names a column the table does not have raises nothing and gives the
\* filtered rows with the remaining listed columns, in the listed order.
\* The code raises KeyError at df[cols].
C16_MissingColumnsDropped ==
    (last.op = "apply_view" /\ last.view # None)
        => /\ ~IsError(last.result)
           /\ last.result.columns =
                SelectSeq(last.view["columns"], LAMBDA c : c \in Columns(source))

(***************************************************************************)
(* views/moult_usecase.py: the moult analysis.  The tables it reads carry  *)
(* the columns of the sightings file (ring, species, place, date, status)  *)
(* and the year and month load_data() derives from the date.                *)
(***************************************************************************)
MonthOf(date) == IF date.t = "date" THEN Num((date.d \div 100) % 100) ELSE NaN

\* str(value).strip() of the cell of row i in column col
StrippedCell(df, i, col) == Strip(AsStr(df.data[i][col], df.dtypes[col]))

\* pd.to_numeric(df[col], errors="coerce").isin(numbers), for row i
NumericIsIn(df, i, col, numbers) ==
    ToNumericCell(df.data[i][col]) # NaN /\ ToNumericCell(df.data[i][col]).n \in numbers

\* (mutant) the wrap-around range is treated like the normal one
InMonthRangeNoWrap(df, i, start_month, end_month) ==
    LET m == ToNumericCell(df.data[i]["month"])
    IN m # NaN /\ m.n >= start_month /\ m.n <= end_month

\* (month_series >= start_month) & (month_series <= end_month), or the
\* wrap-around range, for row i; a month that is no number compares False
InMonthRange(df, i, start_month, end_month) ==
    LET m == ToNumericCell(df.data[i]["month"])
    IN IF start_month <= end_month
       THEN m # NaN /\ m.n >= start_month /\ m.n <= end_month
       ELSE m # NaN /\ (m.n >= start_month \/ m.n <= end_month)

ElementsOf(seq) == {seq[k] : k \in 1..Len(seq)}

FilterByDateRangeMultiYear(df, year_range, start_month, end_month) ==
    TakeRows(df, {i \in 1..Len(df.data) :
                    /\ NumericIsIn(df, i, "year", ElementsOf(year_range))
                    /\ InMonthRange(df, i, start_month, end_month)})

FilterByStatus(df, status_filter) ==
    IF status_filter = <<>> \/ status_filter = <<"A", "l", "l", "e">> THEN df
    ELSE TakeRows(df, {i \in 1..Len(df.data) : StrippedCell(df, i, "status") = status_filter})

\* rings[rings != ""].unique()
UniqueRings(df) ==
    {StrippedCell(df, i, "ring") : i \in 1..Len(df.data)} \ {<<>>}

\* (mutant) the species is not compared
FindMoultingBirdsAnySpecies(df, year_range, place, species, filter_type, start_month, end_month, status_filter) ==
    LET candidates == TakeRows(df, {i \in 1..Len(df.data) :
                          /\ StrippedCell(df, i, "place") = place
                          /\ NumericIsIn(df, i, "year", ElementsOf(year_range))})
    IN IF filter_type = "Zeitraum"
       THEN FilterByDateRangeMultiYear(candidates, year_range, start_month, end_month)
       ELSE IF filter_type = "Status" THEN FilterByStatus(candidates, status_filter)
       ELSE candidates

\* _find_moulting_birds: the moulting sightings and their rings
FindMoultingBirds(df, year_range, place, species, filter_type, start_month, end_month, status_filter) ==
    LET candidates == TakeRows(df, {i \in 1..Len(df.data) :
                          /\ StrippedCell(df, i, "species") = species
                          /\ StrippedCell(df, i, "place") = place
                          /\ NumericIsIn(df, i, "year", ElementsOf(year_range))})
    IN IF filter_type = "Zeitraum"
       THEN FilterByDateRangeMultiYear(candidates, year_range, start_month, end_month)
       ELSE IF filter_type = "Status" THEN FilterByStatus(candidates, status_filter)
       ELSE candidates

\* (mutant) the moulting months are not taken out
RestOfYearKeepingWindow(df, moulting_rings, year_range, filter_type, start_month, end_month) ==
    TakeRows(df, {i \in 1..Len(df.data) :
                    /\ StrippedCell(df, i, "ring") \in moulting_rings
                    /\ NumericIsIn(df, i, "year", ElementsOf(year_range))})

\* (mutant) the sightings of every year are kept
RestOfYearAnyYear(df, moulting_rings, year_range, filter_type, start_month, end_month) ==
    TakeRows(df, {i \in 1..Len(df.data) :
                    /\ StrippedCell(df, i, "ring") \in moulting_rings
                    /\ filter_type = "Zeitraum" => ~InMonthRange(df, i, start_month, end_month)})

\* _analyze_rest_of_year: the sightings of the moulting rings in the year
\* range, without the moulting months when the definition is a period
RestOfYear(df, moulting_rings, year_range, filter_type, start_month, end_month) ==
    TakeRows(df, {i \in 1..Len(df.data) :
                    /\ StrippedCell(df, i, "ring") \in moulting_rings
                    /\ NumericIsIn(df, i, "year", ElementsOf(year_range))
                    /\ filter_type = "Zeitraum" => ~InMonthRange(df, i, start_month, end_month)})

\* (mutant) the place is compared without str.strip()
AtPlaceUnstripped(work, moulting_place) ==
    TakeRows(work, {i \in 1..Len(work.data) : work.data[i]["place"] = Str(moulting_place)})

\* the rest-of-range sightings at the moulting place, and those elsewhere
AtPlace(work, moulting_place) ==
    TakeRows(work, {i \in 1..Len(work.data) : StrippedCell(work, i, "place") = moulting_place})

NotAtPlace(work, moulting_place) ==
    TakeRows(work, {i \in 1..Len(work.data) : StrippedCell(work, i, "place") # moulting_place})

\* the dict stored in st.session_state.moult_analysis_results
AnalysisResults(moulting_df, work, place) ==
    [moulting_df |-> moulting_df,
     all_rest_year_df |-> work,
     different_places_df |-> NotAtPlace(work, place),
     moulting_place_df |-> AtPlace(work, place),
     moulting_place |-> place,
     num_moulting_rings |-> Cardinality(UniqueRings(moulting_df))]

(***************************************************************************)
(* render_moult_usecase: the widgets.  A widget's state is the set holding *)
(* its value, {} while it has none; a widget that a run does not reach     *)
(* loses its state.  A selectbox shows its state while that is one of its  *)
(* options and its default option otherwise.                               *)
(***************************************************************************)
Alphabet == <<" ", "1", "2", "A", "B", "F", "L", "a", "b", "c", "m", "n">>
CharRank(c) == CHOOSE k \in 1..Len(Alphabet) : Alphabet[k] = c

\* a < b for two str, as list.sort() compares them
RECURSIVE TextLess(_, _)
TextLess(a, b) ==
    IF b = <<>> THEN FALSE
    ELSE IF a = <<>> THEN TRUE
    ELSE IF Head(a) # Head(b) THEN CharRank(Head(a)) < CharRank(Head(b))
    ELSE TextLess(Tail(a), Tail(b))

Pick(state, options, default) ==
    IF state # {} /\ state \subseteq options THEN CHOOSE v \in state : TRUE ELSE default

MinOf(numbers) == CHOOSE n \in numbers : \A m \in numbers : n <= m
MaxOf(numbers) == CHOOSE n \in numbers : \A m \in numbers : n >= m

\* list(range(start, end + 1))
YearList(start, end) == [k \in 1..(IF end >= start THEN end - start + 1 ELSE 0) |-> start + k - 1]

\* sorted(numbers)
RECURSIVE SortedNumbers(_)
SortedNumbers(numbers) ==
    IF numbers = {} THEN <<>>
    ELSE <<MinOf(numbers)>> \o SortedNumbers(numbers \ {MinOf(numbers)})

\* _get_years_from_df, for a table with a year column
GetYearsFromDf(df) ==
    {ToNumericCell(df.data[i]["year"]).n :
        i \in {j \in 1..Len(df.data) : ToNumericCell(df.data[j]["year"]) # NaN}}

\* unique_nonempty(df, column): the options, and the one list.sort() puts first
UniqueNonempty(df, column) ==
    IF column \notin Columns(df) THEN {}
    ELSE {StrippedCell(df, i, column) :
            i \in {j \in 1..Len(df.data) : df.data[j][column] # NaN}} \ {<<>>}

FirstText(texts) == CHOOSE t \in texts : \A u \in texts \ {t} : TextLess(t, u)

\* place_counts: the stripped places that are not "", and the first of them
\* by descending count (equal counts stay in the sorted order of groupby)
PlaceOptions(df) == {StrippedCell(df, i, "place") : i \in 1..Len(df.data)} \ {<<>>}

PlaceCount(df, place) ==
    Cardinality({i \in 1..Len(df.data) : StrippedCell(df, i, "place") = place})

FirstPlace(df) ==
    CHOOSE p \in PlaceOptions(df) : \A q \in PlaceOptions(df) \ {p} :
        \/ PlaceCount(df, p) > PlaceCount(df, q)
        \/ PlaceCount(df, p) = PlaceCount(df, q) /\ TextLess(p, q)

Alle == <<"A", "l", "l", "e">>
Placeholder == <<"-">>
WidgetKeys ==
    {"dataset_select", "moult_show_hidden", "moult_year_mode", "moult_year",
     "moult_start_year", "moult_end_year", "moult_species", "moult_place",
     "moult_filter_type", "moult_start_month", "moult_end_month", "moult_status",
     "run_button", "place_chart"}

NoWidgets == [k \in WidgetKeys |-> {}]

\* d with the entries of upd in place of its own
Over(d, upd) == [k \in DOMAIN d |-> IF k \in DOMAIN upd THEN upd[k] ELSE d[k]]

\* df.loc[mask] of the rows whose included flag is 1, unless hidden rows
\* are asked for
IncludedOnly(df, include_hidden) ==
    IF "included" \in Columns(df) /\ ~include_hidden
    THEN TakeRows(df, {i \in 1..Len(df.data) :
            AsStr(df.data[i]["included"], df.dtypes["included"]) = <<"1">>})
    ELSE df

\* what one run of the page leaves: widget values and options, the
\* messages it wrote, what it raised, the analyzer steps it ran, the stored
\* results and the results it displayed
Outcome(values, options, signals, raised, steps, results, shown, params) ==
    [values |-> values, options |-> options, signals |-> signals, raised |-> raised,
     steps |-> steps, results |-> results, shown |-> shown, params |-> params]

RingsOf(df) == {StrippedCell(df, i, "ring") : i \in 1..Len(df.data)}

\* _create_movement_summary_table: the six counts, in the order of the table
SummaryTable(results) ==
    LET total_moulting_rings == Cardinality(RingsOf(results.moulting_df))
        seen_rest_of_year == Cardinality(RingsOf(results.all_rest_year_df))
    IN << total_moulting_rings,
          seen_rest_of_year,
          total_moulting_rings - seen_rest_of_year,
          Cardinality(RingsOf(results.moulting_place_df)),
          Cardinality(RingsOf(results.moulting_place_df)
                        \ RingsOf(results.different_places_df)),
          Cardinality(RingsOf(results.different_places_df)) >>

\* the places of the bars of _create_place_distribution_chart, {} when the
\* chart is not drawn
ChartPlaces(results) ==
    IF results = None THEN {}
    ELSE IF Len(results.all_rest_year_df.data) = 0 THEN {}
    ELSE {results.different_places_df.data[i]["place"].s :
            i \in {j \in 1..Len(results.different_places_df.data) :
                     results.different_places_df.data[j]["place"] # NaN}}

\* lines 483-507 without the widgets: None when no ring is found
MoultAnalysis(df, year_range, place, species, filter_type, start_month, end_month, status_filter) ==
    LET moulting_df == FindMoultingBirds(df, year_range, place, species, filter_type,
                                         start_month, end_month, status_filter)
    IN IF UniqueRings(moulting_df) = {} THEN None
       ELSE AnalysisResults(moulting_df,
                            RestOfYear(df, UniqueRings(moulting_df), year_range,
                                       filter_type, start_month, end_month),
                            place)

\* the analysis of the parameters a run has resolved
Analyse(params) ==
    MoultAnalysis(params.df, params.year_range, params.place, params.species,
                  params.filter_type, params.start_month, params.end_month,
                  params.status_filter)

\* lines 510-678: the summary and the drill-down for the stored results
MoultDisplay(values, options, signals, steps, results, params) ==
    IF results = None
    THEN Outcome(values, options, signals, "no", steps, results, None, params)
    ELSE Outcome(
            Over(values, [place_chart |->
                IF values["place_chart"] \subseteq ChartPlaces(results)
                THEN values["place_chart"] ELSE {}]),
            Over(options, [place_chart |-> ChartPlaces(results)]),
            signals \cup {"success@519"},
            "no", steps, results,
            [summary |-> SummaryTable(results),
             selected_sightings |->
                TakeRows(results.different_places_df,
                    {i \in 1..Len(results.different_places_df.data) :
                        /\ values["place_chart"] \subseteq ChartPlaces(results)
                        /\ StrippedCell(results.different_places_df, i, "place")
                               \in values["place_chart"]})],
            params)

\* (mutant) the analysis runs without the button
MoultButtonAlways(values, options, signals, pressed, results, params) ==
    IF Analyse(params) = None
    THEN Outcome(values, options,
                 signals \cup {"warning@488"}, "no",
                 <<"_find_moulting_birds">>, None, None, params)
    ELSE MoultDisplay(values, options, signals,
                      <<"_find_moulting_birds", "_analyze_rest_of_year">>,
                      Analyse(params), params)

\* (mutant) a run that finds no ring leaves the stored results alone
MoultButtonKeepingResults(values, options, signals, pressed, results, params) ==
    IF pressed
    THEN IF Analyse(params) = None
         THEN Outcome(values, options,
                      signals \cup {"warning@488"}, "no",
                      <<"_find_moulting_birds">>, results, None, params)
         ELSE MoultDisplay(values, options, signals,
                           <<"_find_moulting_birds", "_analyze_rest_of_year">>,
                           Analyse(params), params)
    ELSE MoultDisplay(values, options, signals, <<>>, results, params)

\* lines 480-507: the button "Analyse starten", then the display
MoultButton(values, options, signals, pressed, results, params) ==
    IF pressed
    THEN IF Analyse(params) = None
         THEN Outcome(values, options,
                      signals \cup {"warning@488"}, "no",
                      <<"_find_moulting_birds">>, None, None, params)
         ELSE MoultDisplay(values, options, signals,
                           <<"_find_moulting_birds", "_analyze_rest_of_year">>,
                           Analyse(params), params)
    ELSE MoultDisplay(values, options, signals, <<>>, results, params)

YearModes == {"Einzelnes Jahr", "Bereich", "Alle Jahre"}
FilterTypes == {"Zeitraum", "Status"}
Months == 1..12

\* lines 386-474: what the parameter widgets show for the table df and the
\* widget states v (a widget the run does not reach has 0 or "" here)
ResolveWidgets(df, v) ==
    LET years == GetYearsFromDf(df)
        year_mode == Pick(v["moult_year_mode"], YearModes, "Einzelnes Jahr")
        filter_type == Pick(v["moult_filter_type"], FilterTypes, "Zeitraum")
        status_options == {Alle} \cup UniqueNonempty(df, "status")
    IN [years |-> years,
        year_mode |-> year_mode,
        year |-> IF years = {} THEN 0 ELSE Pick(v["moult_year"], years, MaxOf(years)),
        start_year |-> IF years = {} THEN 0
                       ELSE Pick(v["moult_start_year"], years, MinOf(years)),
        end_year |-> IF years = {} THEN 0
                     ELSE Pick(v["moult_end_year"], years, MaxOf(years)),
        species_options |-> UniqueNonempty(df, "species"),
        species |-> IF UniqueNonempty(df, "species") = {} THEN <<>>
                    ELSE Pick(v["moult_species"], UniqueNonempty(df, "species"),
                              FirstText(UniqueNonempty(df, "species"))),
        place_options |-> PlaceOptions(df),
        place |-> IF PlaceOptions(df) = {} THEN <<>>
                  ELSE Pick(v["moult_place"], PlaceOptions(df), FirstPlace(df)),
        filter_type |-> filter_type,
        start_month |-> IF filter_type = "Zeitraum"
                        THEN Pick(v["moult_start_month"], Months, 6) ELSE 1,
        end_month |-> IF filter_type = "Zeitraum"
                      THEN Pick(v["moult_end_month"], Months, 8) ELSE 1,
        status_options |-> status_options,
        status_filter |-> IF filter_type = "Status"
                          THEN Pick(v["moult_status"], status_options, Alle) ELSE <<>>]

\* lines 397-409
YearRange(w) ==
    CASE w.year_mode = "Einzelnes Jahr" -> <<w.year>>
      [] w.year_mode = "Bereich" -> YearList(w.start_year, w.end_year)
      [] OTHER -> SortedNumbers(w.years)

\* the states and the options of the year widgets the run reaches
YearWidgetValues(w) ==
    [moult_year_mode |-> {w.year_mode},
     moult_year |-> IF w.year_mode = "Einzelnes Jahr" THEN {w.year} ELSE {},
     moult_start_year |-> IF w.year_mode = "Bereich" THEN {w.start_year} ELSE {},
     moult_end_year |-> IF w.year_mode = "Bereich" THEN {w.end_year} ELSE {}]

YearWidgetOptions(w) ==
    [moult_year_mode |-> YearModes,
     moult_year |-> IF w.year_mode = "Einzelnes Jahr" THEN w.years ELSE {},
     moult_start_year |-> IF w.year_mode = "Bereich" THEN w.years ELSE {},
     moult_end_year |-> IF w.year_mode = "Bereich" THEN w.years ELSE {}]

DefinitionWidgetValues(w) ==
    [moult_species |-> {w.species}, moult_place |-> {w.place},
     moult_filter_type |-> {w.filter_type},
     moult_start_month |-> IF w.filter_type = "Zeitraum" THEN {w.start_month} ELSE {},
     moult_end_month |-> IF w.filter_type = "Zeitraum" THEN {w.end_month} ELSE {},
     moult_status |-> IF w.filter_type = "Status" THEN {w.status_filter} ELSE {}]

DefinitionWidgetOptions(w) ==
    [moult_species |-> w.species_options, moult_place |-> w.place_options,
     moult_filter_type |-> FilterTypes,
     moult_start_month |-> IF w.filter_type = "Zeitraum" THEN Months ELSE {},
     moult_end_month |-> IF w.filter_type = "Zeitraum" THEN Months ELSE {},
     moult_status |-> IF w.filter_type = "Status" THEN w.status_options ELSE {}]

MoultParameters(df, w) ==
    [df |-> df, year_range |-> YearRange(w), species |-> w.species, place |-> w.place,
     filter_type |-> w.filter_type, start_month |-> w.start_month,
     end_month |-> w.end_month, status_filter |-> w.status_filter]

\* lines 383-678 for the table df: values and options hold the widgets above
\* the parameters (dataset, hidden rows); chart is the state of the chart
\* selection
MoultParametersUi(df, w, values, options, chart, pressed, results) ==
    IF w.years = {}
    THEN Outcome(values, options, {"error@388"}, "no", <<>>, results, None, None)
    ELSE IF w.species_options = {}
    THEN Outcome(Over(values, YearWidgetValues(w)), Over(options, YearWidgetOptions(w)),
                 {"error@414"}, "no", <<>>, results, None, None)
    ELSE IF w.place_options = {}
    THEN Outcome(Over(Over(values, YearWidgetValues(w)), [moult_species |-> {w.species}]),
                 Over(Over(options, YearWidgetOptions(w)),
                      [moult_species |-> w.species_options]),
                 {"error@431"}, "no", <<>>, results, None, None)
    ELSE IF /\ YearRange(w) = <<>>
            /\ w.filter_type = "Zeitraum" \/ w.status_filter # Alle
    THEN \* min(year_range) of an empty list
         Outcome(Over(Over(values, YearWidgetValues(w)), DefinitionWidgetValues(w)),
                 Over(Over(options, YearWidgetOptions(w)), DefinitionWidgetOptions(w)),
                 {}, "ValueError", <<>>, results, None, None)
    ELSE MoultButton(
            Over(Over(Over(values, YearWidgetValues(w)), DefinitionWidgetValues(w)),
                 [place_chart |-> chart]),
            Over(Over(Over(options, YearWidgetOptions(w)), DefinitionWidgetOptions(w)),
                 [run_button |-> {TRUE}]),
            {}, pressed, results, MoultParameters(df, w))

\* lines 374-381 and below, for the table load_dataset returned
MoultFrame(df, v, values, options, pressed, results) ==
    IF Len(df.data) = 0
    THEN Outcome(values, options, {"info@380"}, "no", <<>>, results, None, None)
    ELSE MoultParametersUi(df, ResolveWidgets(df, v), values, options,
                           v["place_chart"], pressed, results)

\* lines 368-377 for what load_dataset returned
MoultLoaded(loaded, v, values, options, pressed, results) ==
    IF IsError(loaded)
    THEN Outcome(values, options, {}, loaded.error, <<>>, results, None, None)
    ELSE IF loaded.meta = None \/ loaded.df = None
    THEN Outcome(values, options, {"error@370"}, "no", <<>>, results, None, None)
    ELSE MoultFrame(
            IncludedOnly(loaded.df, Pick(v["moult_show_hidden"], BOOLEAN, FALSE)), v,
            Over(values, [moult_show_hidden |->
                            {Pick(v["moult_show_hidden"], BOOLEAN, FALSE)}]),
            Over(options, [moult_show_hidden |-> BOOLEAN]),
            pressed, results)

\* render_moult_usecase(): one run of the page script, for the widget states
\* v, the button pressed or not, and the results in the session state
RenderMoultUsecase(st, df_all, v, pressed, results) ==
    IF ListDatasetNames(st) = {}
    THEN Outcome(NoWidgets, NoWidgets, {"info@171"}, "no", <<>>, results, None, None)
    ELSE IF Pick(v["dataset_select"], ListDatasetNames(st), Placeholder) = Placeholder
    THEN Outcome(Over(NoWidgets, [dataset_select |-> {Placeholder}]),
                 Over(NoWidgets, [dataset_select |-> ListDatasetNames(st) \cup {Placeholder}]),
                 {}, "no", <<>>, results, None, None)
    ELSE MoultLoaded(
            LoadDataset(st, Pick(v["dataset_select"], ListDatasetNames(st), Placeholder),
                        df_all,
                        CHOOSE order \in ExcludedOrders(st,
                            Pick(v["dataset_select"], ListDatasetNames(st), Placeholder)) : TRUE),
            v,
            Over(NoWidgets, [dataset_select |->
                {Pick(v["dataset_select"], ListDatasetNames(st), Placeholder)}]),
            Over(NoWidgets, [dataset_select |-> ListDatasetNames(st) \cup {Placeholder}]),
            pressed, results)

(***************************************************************************)
(* SpecMoult: the moult page, one action per interaction of the user (a    *)
(* widget set to another of its options, the button, a bar of the chart),  *)
(* each followed by the run of the page it triggers.                       *)
(***************************************************************************)
MoultRow(id, ring, species, place, date, status) ==
    [id |-> Str(id), ring |-> Str(ring), species |-> Str(species), place |-> Str(place),
     date |-> date, year |-> YearOf(date), month |-> MonthOf(date), status |-> Str(status)]

MoultRowPool ==
    << MoultRow(<<"1">>, <<"A", "1">>, <<"a", "b">>, <<"L">>,
                Dat(IsoOrdinal(D_2020_06_15)), <<"m">>),
       MoultRow(<<"2">>, <<"A", "1">>, <<"a", "b">>, <<"F">>,
                Dat(IsoOrdinal(D_2020_12_01)), <<"b">>),
       MoultRow(<<"3">>, <<"B", "2">>, <<"a", "b">>, <<"L", " ">>,
                Dat(IsoOrdinal(D_2021_01_10)), <<"m">>),
       MoultRow(<<"4">>, <<>>, <<"c">>, <<"L">>,
                Dat(IsoOrdinal(D_2020_06_15)), <<>>) >>

MoultFrameOf(rows) ==
    [dtypes |-> [c \in {"id", "ring", "species", "place", "date", "year", "month", "status"} |->
                    CASE c = "date" -> "datetime"
                      [] c \in {"year", "month"} -> "int"
                      [] OTHER -> "object"],
     index |-> [i \in 1..Len(rows) |-> i - 1],
     data |-> rows]

MoultTables ==
    { MoultFrameOf(SelectPositions(MoultRowPool, keep, 1)) :
        keep \in {k \in SUBSET (1..Len(MoultRowPool)) :
                    /\ Cardinality(k) <= MaxRows
                    /\ Cardinality(k) >= Len(MoultRowPool) - 1} }

\* two datasets: "ab" hides sighting 2, "a_b" keeps the species "ab"
MoultStores ==
    { NoStore,
      WriteFile(
        WriteFile(NoStore, DatasetConfigPath(N_ab),
            [name |-> N_ab, description |-> <<>>, columns |-> <<>>, filters |-> <<>>,
             excluded_ids |-> <<Str(<<"2">>)>>]),
        DatasetConfigPath(N_a_under_b),
        [name |-> N_a_under_b, description |-> <<>>, columns |-> <<>>,
         filters |-> <<[type |-> "equals", column |-> "species",
                        value |-> Str(<<"a", "b">>)]>>,
         excluded_ids |-> <<>>]) }

MonthInputs == {2, 11}

\* the session after the run r, and what the run did
SessionAfter(r) == [page |-> "moult", values |-> r.values, results |-> r.results]

InitMoult ==
    /\ source \in MoultTables
    /\ store \in MoultStores
    /\ \E r \in {RenderMoultUsecase(store, source, NoWidgets, FALSE, None)} :
        /\ ss = SessionAfter(r)
        /\ last = [op |-> "none", value |-> {}, run |-> r, before |-> None, steps |-> 0]

\* the user sets the widget key to value (or presses the button): the run
\* this triggers
MoultPerform(key, value) ==
    /\ last.steps < MaxSteps
    /\ value \in last.run.options[key]
    /\ value \notin ss.values[key]
    /\ \E r \in {RenderMoultUsecase(store, source,
                    IF key = "run_button" THEN ss.values
                    ELSE [ss.values EXCEPT ![key] = {value}],
                    key = "run_button", ss.results)} :
        /\ ss' = SessionAfter(r)
        /\ last' = [op |-> key, value |-> {value}, run |-> r,
                    before |-> [results |-> ss.results, shown |-> last.run.shown],
                    steps |-> last.steps + 1]
    /\ UNCHANGED <<source, store>>

SelectDataset == \E name \in ListDatasetNames(store) \cup {Placeholder} :
                    MoultPerform("dataset_select", name)
ToggleHidden == \E b \in BOOLEAN : MoultPerform("moult_show_hidden", b)
SetYearMode == \E m \in YearModes : MoultPerform("moult_year_mode", m)
SetYear == \E y \in last.run.options["moult_year"] : MoultPerform("moult_year", y)
SetStartYear == \E y \in last.run.options["moult_start_year"] :
                    MoultPerform("moult_start_year", y)
SetEndYear == \E y \in last.run.options["moult_end_year"] : MoultPerform("moult_end_year", y)
SetSpecies == \E t \in last.run.options["moult_species"] : MoultPerform("moult_species", t)
SetPlace == \E t \in last.run.options["moult_place"] : MoultPerform("moult_place", t)
SetFilterType == \E t \in FilterTypes : MoultPerform("moult_filter_type", t)
SetStartMonth == \E m \in MonthInputs : MoultPerform("moult_start_month", m)
SetEndMonth == \E m \in MonthInputs : MoultPerform("moult_end_month", m)
SetStatus == \E t \in last.run.options["moult_status"] : MoultPerform("moult_status", t)
PressRun == MoultPerform("run_button", TRUE)
SelectChartPlace == \E t \in last.run.options["place_chart"] : MoultPerform("place_chart", t)

NextMoult ==
    \/ SelectDataset \/ ToggleHidden \/ SetYearMode \/ SetYear \/ SetStartYear
    \/ SetEndYear \/ SetSpecies \/ SetPlace \/ SetFilterType \/ SetStartMonth
    \/ SetEndMonth \/ SetStatus \/ PressRun \/ SelectChartPlace

SpecMoult == InitMoult /\ [][NextMoult]_vars

\* C17: whenever a summary is displayed, the stored results are those of the
\* dataset, year range, species, place and moulting definition now selected.
C17_ShownResultIsCurrent ==
    last.run.shown # None => ss.results = Analyse(last.run.params)

\* C18: the analyzer steps run only in a step in which the button is
\* pressed; setting a parameter widget or selecting a bar of the chart leaves
\* the stored results as they were.
C18_OnlyButtonAnalyses ==
    /\ last.run.steps # <<>> => last.op = "run_button"
    /\ last.op \notin {"none", "run_button"} => ss.results = last.before.results

C18_Witness ==
    /\ last.op \in {"moult_species", "moult_place", "moult_year", "moult_filter_type"}
    /\ last.run.steps = <<>>
    /\ ss.results # None
    /\ ss.results = last.before.results
    /\ last.run.params # None
    /\ Analyse(last.run.params) # ss.results

\* a press of the button whose parameters match no ring
RunFoundNoRings ==
    /\ last.op = "run_button"
    /\ last.run.params # None
    /\ UniqueRings(FindMoultingBirds(last.run.params.df, last.run.params.year_range,
            last.run.params.place, last.run.params.species, last.run.params.filter_type,
            last.run.params.start_month, last.run.params.end_month,
            last.run.params.status_filter)) = {}

\* C19: a run that finds no moulting ring writes the warning and raises
\* nothing; the rest-of-range step is not run, nothing is stored, the results
\* stored before are gone and no summary is displayed.
C19_NoRingsClearsResults ==
    RunFoundNoRings =>
        /\ "warning@488" \in last.run.signals
        /\ "success@519" \notin last.run.signals
        /\ last.run.raised = "no"
        /\ last.run.steps = <<"_find_moulting_birds">>
        /\ ss.results = None
        /\ last.run.shown = None

C19_Witness ==
    /\ RunFoundNoRings
    /\ last.before.results # None
    /\ last.before.shown # None
    /\ ss.results = None

\* the year range "Bereich" with a start year after the end year
EmptyYearRange ==
    /\ ss.values["moult_year_mode"] = {"Bereich"}
    /\ \E a \in ss.values["moult_start_year"] : \E b \in ss.values["moult_end_year"] : a > b

\* C20: with an empty year range the page raises nothing, runs no step of the
\* analysis and reports insufficient parameters, not an empty result.
C20_EmptyYearRangeRefused ==
    EmptyYearRange =>
        /\ last.run.raised = "no"
        /\ last.run.steps = <<>>
        /\ last.run.signals \cap {"error@388", "error@414", "error@431"} # {}
        /\ "warning@488" \notin last.run.signals

(***************************************************************************)
(* SpecAnalysis: the moult analysis as a function of the table and the    *)
(* parameters the page passes to it.  The tables are those of a sightings *)
(* file that has year and month columns of its own and no date column     *)
(* (every cell read as text, an empty cell as NaN), and those of           *)
(* MoultTables.                                                            *)
(***************************************************************************)
Lake == <<"L", "a", "k", "e">>
Forest == <<"F", "o", "r", "e", "s", "t">>

\* a cell of a column read with dtype=str: NaN for the empty text
TextCell(text) == IF text = <<>> THEN NaN ELSE Str(text)

AnalysisRow(ring, species, place, year, month, status) ==
    [ring |-> Str(ring), species |-> Str(species), place |-> Str(place),
     year |-> TextCell(year), month |-> TextCell(month), status |-> Str(status)]

Y2020 == <<"2", "0", "2", "0">>
Y2021 == <<"2", "0", "2", "1">>

AnalysisRowPool ==
    << AnalysisRow(<<"A", "1">>, <<"a", "b">>, Lake, Y2020, <<"6">>, <<"m">>),
       AnalysisRow(<<"A", "1">>, <<"a", "b">>, Lake, Y2020, <<"7">>, <<"m">>),
       AnalysisRow(<<"A", "1">>, <<"a", "b">>, Forest, Y2020, <<"1", "0">>, <<"b">>),
       AnalysisRow(<<>>, <<"a", "b">>, Lake, Y2020, <<"6">>, <<"m">>),
       AnalysisRow(<<"A", "1", " ">>, <<"a", "b">>, Lake, Y2020, <<"1", "2">>, <<"b">>),
       AnalysisRow(<<"A", "1">>, <<"a", "b">>, Forest, Y2020, <<>>, <<"b">>),
       AnalysisRow(<<"B", "2">>, <<"a", "b">>, Lake \o <<" ">>, Y2021, <<"1">>, <<"m">>),
       AnalysisRow(<<"B", "2">>, <<"c">>, Forest, Y2020, <<"1", "1">>, <<>>),
       AnalysisRow(<<"B", "2">>, <<"a", "b">>, Lake, Y2021, <<"2">>, <<"m">>),
       AnalysisRow(<<" ">>, <<"a", "b">>, Lake, <<"x">>, <<"3">>, <<"m">>) >>

AnalysisFrameOf(rows) ==
    [dtypes |-> [c \in {"ring", "species", "place", "year", "month", "status"} |-> "object"],
     index |-> [i \in 1..Len(rows) |-> i - 1],
     data |-> rows]

AnalysisTables ==
    { AnalysisFrameOf(SelectPositions(AnalysisRowPool, keep, 1)) :
        keep \in {k \in SUBSET (1..Len(AnalysisRowPool)) : Cardinality(k) <= MaxRows} }

\* the table of scenario A: A1 at Lake in June and July 2020, at Forest in
\* October 2020
ScenarioATable == AnalysisFrameOf(SubSeq(AnalysisRowPool, 1, 3))

\* the parameters the page passes: year_range, place, species, and the
\* moulting definition (a period, or a status, "Alle" for every status)
YearRangeInputs == {<<2020>>, <<2020, 2021>>, <<>>}
PeriodInputs == {<<6, 8>>, <<11, 2>>}
StatusInputs == {Alle, <<"m">>}

ParameterInputs(df) ==
    { [df |-> df, year_range |-> yr, species |-> sp, place |-> pl,
       filter_type |-> "Zeitraum", start_month |-> pd[1], end_month |-> pd[2],
       status_filter |-> <<>>] :
        yr \in YearRangeInputs, sp \in {<<"a", "b">>, <<"c">>}, pl \in {Lake, Forest},
        pd \in PeriodInputs }
    \cup
    { [df |-> df, year_range |-> yr, species |-> sp, place |-> pl,
       filter_type |-> "Status", start_month |-> 1, end_month |-> 1,
       status_filter |-> sf] :
        yr \in YearRangeInputs, sp \in {<<"a", "b">>, <<"c">>}, pl \in {Lake, Forest},
        sf \in StatusInputs }

\* the "Prozent" column: count / total * 100 as the fraction <<n, d>>
Percent(count, total) == IF total > 0 THEN <<count * 100, total>> ELSE <<0, 1>>

SummaryPercent(results) ==
    [k \in 1..6 |-> IF k = 1 THEN <<100, 1>>
                    ELSE Percent(SummaryTable(results)[k], SummaryTable(results)[1])]

InitAnalysis ==
    /\ source \in AnalysisTables \cup MoultTables
    /\ store = NoStore
    /\ ss = NoSession
    /\ last = [op |-> "none"]

\* lines 483-507 and the summary table of line 525
CallAnalyse ==
    /\ last.op = "none"
    /\ \E params \in ParameterInputs(source) :
        \E results \in {Analyse(params)} :
            /\ last' = [op |-> "analyse", params |-> params,
                        moulting_df |-> FindMoultingBirds(source, params.year_range,
                            params.place, params.species, params.filter_type,
                            params.start_month, params.end_month, params.status_filter),
                        results |-> results,
                        summary |-> IF results = None THEN None ELSE SummaryTable(results),
                        percent |-> IF results = None THEN None
                                    ELSE SummaryPercent(results)]
            /\ UNCHANGED <<source, store, ss>>

\* _filter_by_date_range_multi_year(df, year_range, start_month, end_month)
CallFilterByDateRange ==
    /\ last.op = "none"
    /\ \E yr \in YearRangeInputs : \E pd \in PeriodInputs \cup {<<2, 11>>} :
        /\ last' = [op |-> "filter_by_date_range", year_range |-> yr,
                    start_month |-> pd[1], end_month |-> pd[2],
                    result |-> FilterByDateRangeMultiYear(source, yr, pd[1], pd[2])]
        /\ UNCHANGED <<source, store, ss>>

NextAnalysis == CallAnalyse \/ CallFilterByDateRange

SpecAnalysis == InitAnalysis /\ [][NextAnalysis]_vars

\* the months of a period, and the number a row holds in a column (-1 for a
\* cell that is no number)
WindowMonths(start_month, end_month) ==
    IF start_month <= end_month THEN start_month..end_month
    ELSE (start_month..12) \cup (1..end_month)

NumberIn(row, col) == IF ToNumericCell(row[col]) = NaN THEN -1 ELSE ToNumericCell(row[col]).n

Labels(df) == ElementsOf(df.index)

\* the labels of the rows of source for which pred holds
SourceLabels(pred(_)) == {source.index[i] : i \in {j \in 1..Len(source.data) : pred(source.data[j])}}

\* C21: in every result total = only_during_moulting + seen_rest, and
\* seen_rest is the number of rings seen at the moulting place or elsewhere.
C21_PartitionIdentity ==
    last.op = "analyse" /\ last.results # None =>
        /\ last.summary[1] = last.summary[3] + last.summary[2]
        /\ last.summary[2] = Cardinality(RingsOf(last.results.moulting_place_df)
                                           \cup RingsOf(last.results.different_places_df))

C21_Witness ==
    /\ last.op = "analyse" /\ last.results # None
    /\ Len(last.results.moulting_place_df.data) > 0
    /\ Len(last.results.different_places_df.data) > 0
    /\ last.summary[2] = 1

\* C22: _filter_by_date_range_multi_year keeps exactly the rows whose year
\* is in year_range and whose month is one of the months of the window,
\* [11, 2] being November, December, January and February.
C22_MonthWindow ==
    last.op = "filter_by_date_range" =>
        /\ WindowMonths(11, 2) = {11, 12, 1, 2}
        /\ Labels(last.result) =
             SourceLabels(LAMBDA row :
                /\ NumberIn(row, "year") \in ElementsOf(last.year_range)
                /\ NumberIn(row, "month") \in WindowMonths(last.start_month, last.end_month))
        /\ \A i \in 1..Len(last.result.data) :
             \E j \in 1..Len(source.data) :
                source.index[j] = last.result.index[i] /\ source.data[j] = last.result.data[i]

C22_Witness ==
    /\ last.op = "filter_by_date_range"
    /\ last.start_month = 11 /\ last.end_month = 2
    /\ {NumberIn(last.result.data[i], "month") : i \in 1..Len(last.result.data)} = {12, 1}
    /\ Len(source.data) > Len(last.result.data)

ScenarioACall ==
    /\ last.op = "analyse"
    /\ source = ScenarioATable
    /\ last.params.year_range = <<2020>>
    /\ last.params.place = Lake
    /\ last.params.species = <<"a", "b">>
    /\ last.params.filter_type = "Zeitraum"
    /\ last.params.start_month = 6 /\ last.params.end_month = 8

\* C23: scenario A gives the ring A1, one rest-of-range row (Forest in
\* October) that is elsewhere, none at the moulting place, and the summary
\* 1 (100%), 1 (100%), 0 (0%), 0 (0%), 0 (0%), 1 (100%).
C23_ScenarioA ==
    ScenarioACall =>
        /\ last.results # None
        /\ UniqueRings(last.moulting_df) = {<<"A", "1">>}
        /\ last.results.num_moulting_rings = 1
        /\ Len(last.results.all_rest_year_df.data) = 1
        /\ last.results.all_rest_year_df.data[1]["place"] = Str(Forest)
        /\ last.results.all_rest_year_df.data[1]["month"] = Str(<<"1", "0">>)
        /\ Len(last.results.different_places_df.data) = 1
        /\ Len(last.results.moulting_place_df.data) = 0
        /\ last.summary = <<1, 1, 0, 0, 0, 1>>
        /\ \A k \in 1..6 :
             last.percent[k][1] = (IF k \in {1, 2, 6} THEN 100 ELSE 0) * last.percent[k][2]

C23_Witness == ScenarioACall /\ last.results # None /\ last.summary[1] = 1

\* C24: the total of the summary is the number of moulting rings, the
\* distinct trimmed rings of the moulting sightings that are not empty.
C24_TotalIsMoultingRings ==
    last.op = "analyse" /\ last.results # None =>
        last.summary[1] = Cardinality(UniqueRings(last.moulting_df))

\* C25: the moulting rings are the trimmed, non-empty rings of the rows of
\* the given species and place (compared trimmed) with the year in
\* year_range and, for a period, the month in the window, or, for a status,
\* that status ("Alle": any).
C25_MoultingRings ==
    last.op = "analyse" =>
        UniqueRings(last.moulting_df) =
            {Strip(source.data[i]["ring"].s) :
                i \in {j \in 1..Len(source.data) :
                    /\ Strip(source.data[j]["species"].s) = last.params.species
                    /\ Strip(source.data[j]["place"].s) = last.params.place
                    /\ NumberIn(source.data[j], "year") \in ElementsOf(last.params.year_range)
                    /\ IF last.params.filter_type = "Zeitraum"
                       THEN NumberIn(source.data[j], "month")
                                \in WindowMonths(last.params.start_month, last.params.end_month)
                       ELSE \/ last.params.status_filter = Alle
                            \/ Strip(source.data[j]["status"].s) = last.params.status_filter}}
            \ {<<>>}

C25_Witness ==
    /\ last.op = "analyse"
    /\ last.params.filter_type = "Status" /\ last.params.status_filter # Alle
    /\ Cardinality(UniqueRings(last.moulting_df)) = 2
    /\ Len(last.moulting_df.data) < Len(source.data)

\* C26: rest-of-range holds the rows of any place and species with the ring
\* among the moulting rings and the year in year_range; for a period the
\* rows with the month in the window are taken out, for a status none are.
C26_RestOfRange ==
    last.op = "analyse" /\ last.results # None =>
        Labels(last.results.all_rest_year_df) =
            SourceLabels(LAMBDA row :
                /\ Strip(row["ring"].s) \in UniqueRings(last.moulting_df)
                /\ NumberIn(row, "year") \in ElementsOf(last.params.year_range)
                /\ last.params.filter_type = "Zeitraum" =>
                      NumberIn(row, "month")
                          \notin WindowMonths(last.params.start_month, last.params.end_month))

C26_Witness ==
    /\ last.op = "analyse" /\ last.results # None
    /\ last.params.filter_type = "Zeitraum"
    /\ \E i \in 1..Len(last.results.all_rest_year_df.data) :
          Strip(last.results.all_rest_year_df.data[i]["place"].s) # last.params.place
    /\ \E i \in 1..Len(source.data) :
          /\ Strip(source.data[i]["ring"].s) \in UniqueRings(last.moulting_df)
          /\ source.index[i] \notin Labels(last.results.all_rest_year_df)

\* C27: under a period a row whose month is no number is in neither the
\* moulting sightings nor rest-of-range, and the analysis does not fail.
C27_UncoercibleMonthDropped ==
    last.op = "analyse" /\ last.params.filter_type = "Zeitraum" /\ last.results # None =>
        /\ \A i \in 1..Len(last.moulting_df.data) :
              NumberIn(last.moulting_df.data[i], "month") # -1
        /\ \A i \in 1..Len(last.results.all_rest_year_df.data) :
              NumberIn(last.results.all_rest_year_df.data[i], "month") # -1

\* C30: under a status the rings of rest-of-range are the moulting rings,
\* seen_rest and seen_at_place_rest are their number, and no ring is
\* reported as seen only during moulting.
C30_StatusSeesEveryRing ==
    last.op = "analyse" /\ last.params.filter_type = "Status" /\ last.results # None =>
        /\ RingsOf(last.results.all_rest_year_df) = UniqueRings(last.moulting_df)
        /\ last.summary[2] = Cardinality(UniqueRings(last.moulting_df))
        /\ last.summary[4] = Cardinality(UniqueRings(last.moulting_df))
        /\ last.summary[3] = 0

\* C28: a save under one name leaves what load_dataset_config returns for
\* every other name as it was before the save.
C28_SaveLeavesOtherNames ==
    last.op = "save" /\ last.raised = "no" =>
        \A other \in Names \ {last.config["name"]} :
            LoadDatasetConfig(store, other) = LoadDatasetConfig(last.before, other)

\* C29: the rows the builder's _apply_filters selects are the rows the
\* _apply_filters of load_dataset selects for the same table and filters.
C29_BuilderAgreesWithLoad ==
    last.op = "builder_apply_filters" =>
        last.once = ApplyFilters(source, last.filters)

====
